---- MODULE Spec2Model ----
(***************************************************************************)
(* Employee lifecycle synchronisation between the HR system and a fleet of *)
(* biometric terminals (biometric-attendance-sync-tool).                   *)
(*                                                                         *)
(* Spec          the Left-employee cleanup engine of                       *)
(*               02.clean_data_employee_left.py: run_cleanup, the filter   *)
(*               get_left_employees_for_cleanup, the per-terminal session  *)
(*               clear_employee_templates_from_device and the tracking     *)
(*               file.                                                     *)
(* SpecClassify  the classification of one Left employee, as a function of *)
(*               the days since relieving and the two configured delays.   *)
(* SpecMaster    the copy of the master terminal's users to the target     *)
(*               terminals of manual_run_functions/                        *)
(*               sync_all_from_master_device_to_other_devices.py.          *)
(* SpecOT        the overtime sync of                                      *)
(*               05.sync_ot_from_mongodb_to_erpnext.py: deduplication,     *)
(*               grouping by request and the creation of registrations.    *)
(* SpecStore     the tracking file of 02.clean_data_employee_left.py on    *)
(*               disk, loaded and saved by two instances of the program.   *)
(* SpecRecreate  the delete-then-recreate of one user on one terminal.     *)
(* SpecBypass    the bypass windows of local_config.py.                    *)
(* SpecService   the loop of ERPNextSyncService.run of erpnext_sync_all.py.*)
(* SpecMain      main() of 02.clean_data_employee_left.py: flags, exit     *)
(*               code and the restoring of the configuration.              *)
(* SpecIngest    the submission of attendance events by                    *)
(*               04.sync_log_from_mongodb_to_erpnext.py and                *)
(*               sync_log_from_mongodb_to_erpnext.py.                      *)
(* SpecCursor    the last-synced-id cursor of the overtime sync over       *)
(*               several cycles.                                           *)
(* SpecRecord    one overtime record through deduplication, grouping and   *)
(*               the building of the registration.                         *)
(* SpecRecover   Spec with a terminal that answers again between cycles.   *)
(* SpecGate      the bypass gates of execute_cycle and of the end-of-day   *)
(*               cycle of erpnext_sync_all.py.                             *)
(* SpecMarker    the last-sync marker of                                   *)
(*               11.sync_user_info_from_erpnext_to_device.py over passes.  *)
(* SpecManual    execute_clear_left_templates of erpnext_re_sync_all.py.   *)
(* SpecLeft      the worker threads of a changed-sync pass on the Left     *)
(*               employees.                                                *)
(***************************************************************************)
EXTENDS Integers, Sequences, FiniteSets, TLC

\* ------------------------------------------------------------------ bounds
NumEmployees == 2
NumDevices == 2
MaxCycles == 2
MaxDays == 4

Employees == 1..NumEmployees
Devices == 1..NumDevices

\* ------------------------------------------------- configuration constants
CLEAR_LEFT_USER_TEMPLATES_RELIEVING_DELAY_DAYS == 30
ENABLE_DELETE_LEFT_USER_ON_DEVICES_AFTER_RELIEVING_DAYS == 60
PULL_FREQUENCY == 3

\* A relieving date is <<>> when the HR record has none, <<n>> when it parses
\* and today - relieving_date is n days, and Unparseable when strptime raises
\* ValueError on it.
NoDate == << >>
Unparseable == <<0, 0>>
HasDate(rel) == Len(rel) = 1
DaysSince(rel) == rel[1]

\* The operations of the terminal protocol a session uses, in the order
\* clear_employee_templates_from_device issues them.
DeviceOps ==
    {"check_device_connection", "connect", "disable_device", "get_users",
     "delete_user", "set_user", "enable_device", "disconnect"}

\* The condition of one terminal: the set of operations that fail on it.
\* A terminal has no fault or one failing operation.
FaultProfiles == {{}} \cup {{op} : op \in DeviceOps}

VARIABLES
    hr_up,              \* test_erpnext_connection() succeeds
    rel_days,           \* employee -> relieving date, as the HR system holds it
    profile,            \* terminal -> the operations that fail on it
    users,              \* terminal -> employees with a user record on it
    templates,          \* terminal -> employees with fingerprint templates on it
    intake,             \* terminal -> TRUE when the terminal is enabled
    sessions,           \* terminal -> connections opened and not disconnected
    tracking,           \* the tracking file: [cleared, deleted], sets of employee ids
    pc,                 \* position of the cleanup process
    cycle,              \* run_cleanup calls started so far
    left_employees,     \* the list get_left_employees_for_cleanup returned
    ei,                 \* index of the employee being processed
    device_results,     \* results of the terminals done for this employee
    existing_user_ids,  \* the user list read by get_users in the open session
    cur,                \* locals of the open session
    processed_at_start, \* processed_employee_ids, loaded at the start of the cycle
    touched,            \* <<employee, terminal>> a session routine was run for, this cycle
    mutated,            \* <<employee, terminal>> with a delete_user/set_user done, this cycle
    writes,             \* employee -> add_processed_employee calls, this cycle
    cin,                \* SpecClassify: the input drawn
    cout,               \* SpecClassify: the classification computed
    scan_pc,            \* SpecMaster: position of get_all_users_with_fingerprints
    users_data,         \* SpecMaster: the users read from the master terminal
    ui,                 \* SpecMaster: index of the user sync_all_users is at
    mpc,                \* SpecMaster: terminal -> position of its sync_user_to_device
    m_results,          \* SpecMaster: the results sync_user_to_all_targets collected
    ot_records,         \* SpecOT: the OT records fetched, in ascending _id
    hr_registrations,   \* SpecOT: request numbers of the registrations the HR system holds
    hr_details,         \* SpecOT: detail rows (employee, date, times) the HR system holds
    post_ok,            \* SpecOT: the HR system accepts the creation of a registration
    grouped_requests,   \* SpecOT: the output of group_records_by_request
    ot_pc,              \* SpecOT: position of sync_ot_to_erpnext
    ot_results,         \* SpecOT: the result of create_ot_registration, per request done
    ot_counts,          \* SpecOT: the counters of sync_ot_to_erpnext
    canon_file,         \* SpecStore: the tracking file, [st, data, owner]
    tmp_file,           \* SpecStore: the file named <tracking file>.tmp
    fd,                 \* SpecStore: instance -> the file its open handle writes to
    spc,                \* SpecStore: instance -> position of its run
    todo,               \* SpecStore: instance -> employees it still has to record
    processed_data,     \* SpecStore: instance -> the dict add_processed_employee saves
    attempt,            \* SpecStore: instance -> failed attempts of the load under way
    loaded,             \* SpecStore: instance -> what its last load returned
    load_saw,           \* SpecStore: instance -> the file state its last load ended on
    canon_before,       \* SpecStore: instance -> the tracking file when its save began
    alone,              \* SpecStore: instance -> no other instance wrote since then
    committed,          \* SpecStore: the states the tracking file was given by a save
    issued,             \* SpecStore: employees add_processed_employee was called for
    rc_user,            \* SpecRecreate: the terminal's record of the user, << >> when none
    rc_backup,          \* SpecRecreate: the record get_users returned
    rc_employee_name,   \* SpecRecreate: employee_name of the HR record
    rc_routine,         \* SpecRecreate: "engine" or "cleaner"
    rc_pc,              \* SpecRecreate: position in the clear
    bypass_periods,     \* SpecBypass: the configured windows [start, end, reason]
    current_time,       \* SpecBypass: get_current_time(), <<hour, minute>>
    bypass_status,      \* SpecBypass: [done, bypassed, reason] of get_bypass_status
    svc_pc,             \* SpecService: position of ERPNextSyncService.run
    svc_running,        \* SpecService: self.running
    cycle_count,        \* SpecService: self.cycle_count
    in_flight,          \* SpecService: fleet cycles started and not yet over
    svc_minutes,        \* SpecService: minutes spent in the cycle or sleep under way
    last_duration,      \* SpecService: minutes the last finished cycle took
    main_pc,            \* SpecMain: position of main() of 02.clean_data_employee_left.py
    main_args,          \* SpecMain: [dry_run, manual, delay, delete_after] given by the user
    main_env,           \* SpecMain: [hr, raises, results] met by the run
    main_config,        \* SpecMain: [delay, delete_after] held by local_config
    exit_code,          \* SpecMain: the exit code, -1 while the command runs
    att_script,         \* SpecIngest: the attendance script that runs
    att_records,        \* SpecIngest: the events fetched, with the answer HR gives to each
    att_outcome,        \* SpecIngest: the outcome of each event, "" until it is processed
    total_processed,    \* SpecIngest: events HR accepted
    total_skipped,      \* SpecIngest: events counted as skipped
    total_errors,       \* SpecIngest: events counted as errors
    att_pc,             \* SpecIngest: position of sync_attendance_data
    ot_inserted,        \* SpecCursor: OT records in MongoDB, with the _id 1..ot_inserted
    last_id_file,       \* SpecCursor: the _id in the cursor file, 0 when there is no file
    cur_records,        \* SpecCursor: records of sync_ot_to_erpnext, as their _id
    cur_done,           \* SpecCursor: requests the loop of this cycle is done with
    hr_created,         \* SpecCursor: requests that have a registration in HR
    attempted_in,       \* SpecCursor: per request, the cycles that tried to create it
    failed_in,          \* SpecCursor: per request, the cycles in which the creation failed
    fetch_failed,       \* SpecCursor: the cycles in which the fetch raised
    ot_cycle,           \* SpecCursor: cycles of the OT sync started so far
    cursor_pc,          \* SpecCursor: position of sync_ot_to_erpnext
    raw_record,         \* SpecRecord: one OT record as MongoDB holds it
    rec_pc,             \* SpecRecord: how far the record got through the OT sync
    rec_doc,            \* SpecRecord: the registration posted to HR for the record
    cyc_kind,           \* SpecGate: "normal" or "end_of_day", by should_run_end_of_day_resync
    sync_log_by_pass_period,\* SpecGate: the bypass windows of the log sync
    sync_user_info_by_pass_period,\* SpecGate: the bypass windows of the user info sync
    cyc_now,            \* SpecGate: the wall clock during the cycle
    cyc_pc,             \* SpecGate: the step the cycle is at
    sessions_for,       \* SpecGate: the classes the cycle opened device sessions for
    mk_now,             \* SpecMarker: the wall clock, in ticks
    hr_modified,        \* SpecMarker: per employee, the time of the last change in HR
    last_sync,          \* SpecMarker: the time in last_sync_global.json, << >> without file
    mk_changed,         \* SpecMarker: the employees the latest pass fetched
    mk_failed,          \* SpecMarker: <<employee, terminal>> the latest pass failed to deliver
    mk_prev_failed,     \* SpecMarker: the same for the pass before the latest
    mk_passes,          \* SpecMarker: passes started so far
    mk_pc,              \* SpecMarker: "idle", or "syncing" inside a pass
    man_pc,             \* SpecManual: position of execute_clear_left_templates
    man_args,           \* SpecManual: [force, delay, delete_after] given or answered, << >> a cancelled prompt
    man_env,            \* SpecManual: [ran_today, hr, left, raises] met by the operation
    man_config,         \* SpecManual: [delay, delete_after] held by local_config
    man_result,         \* SpecManual: the value returned, "none" while it runs
    erpnext_cleaned,    \* SpecLeft: _left_employees_erpnext_cleaned, << >> while the attribute is not set
    worker_pc,          \* SpecLeft: per terminal, the position of its worker thread
    worker_emp,         \* SpecLeft: per terminal, the index of the Left employee its thread is at
    hr_deletions,       \* SpecLeft: per employee, the calls of delete_employee_fingerprints_from_erpnext
    hr_raises           \* SpecLeft: the employees whose deletion in HR raises

deviceVars == <<users, templates, intake, sessions>>
inputVars == <<hr_up, rel_days, profile>>
engineVars == <<tracking, pc, cycle, left_employees, ei, device_results,
                existing_user_ids, cur, processed_at_start, touched, mutated, writes>>
classifyVars == <<cin, cout>>
masterVars == <<scan_pc, users_data, ui, mpc, m_results>>
otVars == <<ot_records, hr_registrations, hr_details, post_ok, grouped_requests, ot_pc,
            ot_results, ot_counts>>
storeVars == <<canon_file, tmp_file, fd, spc, todo, processed_data, attempt, loaded,
               load_saw, canon_before, alone, committed, issued>>
recreateVars == <<rc_user, rc_backup, rc_employee_name, rc_routine, rc_pc>>
\* The variables of the components defined after the tracking file.
bypassVars == <<bypass_periods, current_time, bypass_status>>
serviceVars == <<svc_pc, svc_running, cycle_count, in_flight, svc_minutes, last_duration>>
mainVars == <<main_pc, main_args, main_env, main_config, exit_code>>
ingestVars == <<att_script, att_records, att_outcome, total_processed, total_skipped, total_errors, att_pc>>
cursorVars == <<ot_inserted, last_id_file, cur_records, cur_done, hr_created, attempted_in, failed_in, fetch_failed, ot_cycle, cursor_pc>>
recordVars == <<raw_record, rec_pc, rec_doc>>
gateVars == <<cyc_kind, sync_log_by_pass_period, sync_user_info_by_pass_period, cyc_now, cyc_pc, sessions_for>>
markerVars == <<mk_now, hr_modified, last_sync, mk_changed, mk_failed, mk_prev_failed, mk_passes, mk_pc>>
manualVars == <<man_pc, man_args, man_env, man_config, man_result>>
leftVars == <<erpnext_cleaned, worker_pc, worker_emp, hr_deletions, hr_raises>>
auxVars == <<recreateVars, bypassVars, serviceVars, mainVars, ingestVars, cursorVars, recordVars, gateVars, markerVars, manualVars,
            leftVars>>
\* The variables the cleanup engine leaves alone.
notEngine == <<classifyVars, masterVars, otVars, storeVars, auxVars>>
\* The variables the master sync leaves alone, the terminals and inputs aside.
notMaster == <<engineVars, classifyVars, otVars, storeVars, auxVars>>
\* The variables the OT sync leaves alone.
notOT == <<inputVars, deviceVars, engineVars, classifyVars, masterVars, storeVars,
          auxVars>>
\* The variables the instances sharing the tracking file leave alone.
notStore == <<inputVars, deviceVars, engineVars, classifyVars, masterVars, otVars,
             auxVars>>
coreVars == <<inputVars, deviceVars, engineVars, classifyVars, masterVars, otVars,
              storeVars>>
\* The variables the clear of one user leaves alone.
notRecreate == <<coreVars, bypassVars, serviceVars, mainVars,
    ingestVars,
    cursorVars,
    recordVars,
    gateVars,
    markerVars,
    manualVars,
    leftVars>>
\* The variables the bypass decision leaves alone.
notBypass == <<coreVars, recreateVars, serviceVars, mainVars,
    ingestVars,
    cursorVars,
    recordVars,
    gateVars,
    markerVars,
    manualVars,
    leftVars>>
\* The variables the service loop leaves alone.
notService == <<coreVars, recreateVars, bypassVars, mainVars,
    ingestVars,
    cursorVars,
    recordVars,
    gateVars,
    markerVars,
    manualVars,
    leftVars>>
\* The variables the cleanup command leaves alone.
notMain == <<coreVars, recreateVars, bypassVars, serviceVars,
    ingestVars,
    cursorVars,
    recordVars,
    gateVars,
    markerVars,
    manualVars,
    leftVars>>
\* The variables the attendance ingestion leaves alone.
notIngest == <<coreVars, recreateVars, bypassVars, serviceVars, mainVars,
    cursorVars,
    recordVars,
    gateVars,
    markerVars,
    manualVars,
    leftVars>>
\* The variables the OT cursor leaves alone.
notCursor == <<coreVars, recreateVars, bypassVars, serviceVars, mainVars, ingestVars,
    recordVars,
    gateVars,
    markerVars,
    manualVars,
    leftVars>>
\* The variables the path of one OT record leaves alone.
notRecord == <<coreVars, recreateVars, bypassVars, serviceVars, mainVars, ingestVars, cursorVars,
    gateVars,
    markerVars,
    manualVars,
    leftVars>>
\* The variables the gating of a cycle leaves alone.
notGate == <<coreVars, recreateVars, bypassVars, serviceVars, mainVars, ingestVars, cursorVars, recordVars,
    markerVars,
    manualVars,
    leftVars>>
\* The variables the last-sync marker leaves alone.
notMarker == <<coreVars, recreateVars, bypassVars, serviceVars, mainVars, ingestVars, cursorVars, recordVars, gateVars,
    manualVars,
    leftVars>>
\* The variables the manual re-sync tool leaves alone.
notManual == <<coreVars, recreateVars, bypassVars, serviceVars, mainVars, ingestVars, cursorVars, recordVars, gateVars, markerVars,
    leftVars>>
\* The variables the cleanup of Left employees in a changed-sync pass leaves alone.
notLeft == <<coreVars, recreateVars, bypassVars, serviceVars, mainVars, ingestVars, cursorVars, recordVars, gateVars, markerVars, manualVars>>
vars == <<coreVars, auxVars>>

\* ------------------------------------------------------------ classification
\* get_left_employees_with_device_id keeps an employee only when the relieving
\* date is present, parses, and today > relieving_date.
date_validated(rel) == HasDate(rel) /\ DaysSince(rel) > 0

\* PRIORITY 1 of get_left_employees_for_cleanup.
should_permanently_delete(days, delete_after_days) ==
    delete_after_days > 0 /\ days > delete_after_days

\* PRIORITY 2 of get_left_employees_for_cleanup.
should_clear_templates(days, delay_days, delete_after_days) ==
    ~should_permanently_delete(days, delete_after_days) /\ days >= delay_days

\* Variant of classify: the clear test is made before the purge test.
classify_purge_last(rel, delay_days, delete_after_days) ==
    IF ~HasDate(rel) THEN "NoAction"
    ELSE IF DaysSince(rel) >= delay_days THEN "ClearTemplates"
    ELSE IF should_permanently_delete(DaysSince(rel), delete_after_days) THEN "Purge"
    ELSE "NoAction"

\* Variant of classify: an employee without a usable relieving date is taken
\* to have left long ago.
classify_guessing_date(rel, delay_days, delete_after_days) ==
    IF ~HasDate(rel) THEN "ClearTemplates"
    ELSE IF should_permanently_delete(DaysSince(rel), delete_after_days) THEN "Purge"
    ELSE IF should_clear_templates(DaysSince(rel), delay_days, delete_after_days)
         THEN "ClearTemplates"
    ELSE "NoAction"

\* The branch get_left_employees_for_cleanup takes for one employee.
classify(rel, delay_days, delete_after_days) ==
    IF ~HasDate(rel) THEN "NoAction"
    ELSE IF should_permanently_delete(DaysSince(rel), delete_after_days) THEN "Purge"
    ELSE IF should_clear_templates(DaysSince(rel), delay_days, delete_after_days)
         THEN "ClearTemplates"
    ELSE "NoAction"

\* The decision clear_employee_templates_from_device takes again, inside the
\* session, between "delete" and "delete then recreate".
device_should_delete(rel, delete_after_days) ==
    delete_after_days > 0 /\ HasDate(rel) /\ DaysSince(rel) > delete_after_days

\* The action type clear_employee_templates_from_device reports when the user
\* is not on the terminal.
expected_action_type(rel, delete_after_days) ==
    IF device_should_delete(rel, delete_after_days) THEN "deleted" ELSE "cleared"

EmployeeList == [i \in 1..NumEmployees |-> i]

\* Variant of get_left_employees_for_cleanup: the tracking file is not consulted.
get_left_employees_no_skip(rel, processed_ids) ==
    SelectSeq(EmployeeList, LAMBDA e :
        /\ date_validated(rel[e])
        /\ classify(rel[e], CLEAR_LEFT_USER_TEMPLATES_RELIEVING_DELAY_DAYS,
                    ENABLE_DELETE_LEFT_USER_ON_DEVICES_AFTER_RELIEVING_DAYS) # "NoAction")

\* The list get_left_employees_for_cleanup returns: the Left employees the HR
\* client delivers, minus those in the tracking file, minus those not ready.
get_left_employees_for_cleanup(rel, processed_ids) ==
    SelectSeq(EmployeeList, LAMBDA e :
        /\ date_validated(rel[e])
        /\ e \notin processed_ids
        /\ classify(rel[e], CLEAR_LEFT_USER_TEMPLATES_RELIEVING_DELAY_DAYS,
                    ENABLE_DELETE_LEFT_USER_ON_DEVICES_AFTER_RELIEVING_DAYS) # "NoAction")

\* ------------------------------------------------------------ initial states
RelChoices ==
    {NoDate, Unparseable,
     <<CLEAR_LEFT_USER_TEMPLATES_RELIEVING_DELAY_DAYS - 1>>,
     <<CLEAR_LEFT_USER_TEMPLATES_RELIEVING_DELAY_DAYS>>,
     <<ENABLE_DELETE_LEFT_USER_ON_DEVICES_AFTER_RELIEVING_DAYS + 1>>}

NoLocals == [cleared_count |-> 0, deleted_count |-> 0, action_type |-> "None",
             raised |-> FALSE]

\* The tracking file is empty, or holds employee 1 from an earlier day.
EngineInit ==
    /\ tracking \in {[cleared |-> c, deleted |-> {}] : c \in {{}, {1}}}
    /\ pc = "idle"
    /\ cycle = 0
    /\ left_employees = << >>
    /\ ei = 0
    /\ device_results = << >>
    /\ existing_user_ids = {}
    /\ cur = NoLocals
    /\ processed_at_start = {}
    /\ touched = {}
    /\ mutated = {}
    /\ writes = [e \in Employees |-> 0]

DevicesInit(empty) ==
    /\ users = [d \in Devices |-> IF d \in empty THEN {} ELSE Employees]
    /\ templates = users
    /\ intake = [d \in Devices |-> TRUE]
    /\ sessions = [d \in Devices |-> 0]

MasterIdle ==
    /\ scan_pc = "idle"
    /\ users_data = << >>
    /\ ui = 0
    /\ mpc = [d \in Devices |-> "idle"]
    /\ m_results = << >>

\* The program instances that can share the tracking file: the scheduled
\* service and a run started by hand.
Instances == {"service", "manual"}

EmptyState == [cleared |-> {}, deleted |-> {}]

NoFile == [st |-> "missing", data |-> EmptyState, owner |-> "none"]

StoreIdle ==
    /\ canon_file = NoFile
    /\ tmp_file = NoFile
    /\ fd = [p \in Instances |-> "none"]
    /\ spc = [p \in Instances |-> "end"]
    /\ todo = [p \in Instances |-> << >>]
    /\ processed_data = [p \in Instances |-> EmptyState]
    /\ attempt = [p \in Instances |-> 0]
    /\ loaded = [p \in Instances |-> EmptyState]
    /\ load_saw = [p \in Instances |-> "none"]
    /\ canon_before = [p \in Instances |-> NoFile]
    /\ alone = [p \in Instances |-> FALSE]
    /\ committed = {}
    /\ issued = {}

RecreateIdle ==
    /\ rc_user = << >>
    /\ rc_backup = << >>
    /\ rc_employee_name = << >>
    /\ rc_routine = "engine"
    /\ rc_pc = "done"

\* Every component defined after the tracking file is idle, but the one named.
BypassIdle ==
    /\ bypass_periods = << >>
    /\ current_time = <<0, 0>>
    /\ bypass_status = [done |-> TRUE, bypassed |-> FALSE, reason |-> "None"]

ServiceIdle ==
    /\ svc_pc = "shutdown"
    /\ svc_running = FALSE
    /\ cycle_count = 0
    /\ in_flight = 0
    /\ svc_minutes = 0
    /\ last_duration = 0

\* The values local_config gives the two delays when it is imported.
OriginalConfig ==
    [delay |-> CLEAR_LEFT_USER_TEMPLATES_RELIEVING_DELAY_DAYS,
     delete_after |-> ENABLE_DELETE_LEFT_USER_ON_DEVICES_AFTER_RELIEVING_DAYS]

MainIdle ==
    /\ main_pc = "exited"
    /\ main_args = [dry_run |-> FALSE, manual |-> FALSE, delay |-> << >>,
                    delete_after |-> << >>]
    /\ main_env = [hr |-> TRUE, raises |-> FALSE, results |-> << >>]
    /\ main_config = OriginalConfig
    /\ exit_code = 0

IngestIdle ==
    /\ att_script = "sync_log"
    /\ att_records = << >>
    /\ att_outcome = << >>
    /\ total_processed = 0
    /\ total_skipped = 0
    /\ total_errors = 0
    /\ att_pc = "done"

CursorIdle ==
    /\ ot_inserted = 0
    /\ last_id_file = 0
    /\ cur_records = << >>
    /\ cur_done = 0
    /\ hr_created = {}
    /\ attempted_in = << >>
    /\ failed_in = << >>
    /\ fetch_failed = {}
    /\ ot_cycle = 0
    /\ cursor_pc = "idle"

RecordIdle ==
    /\ raw_record = << >>
    /\ rec_pc = "dropped"
    /\ rec_doc = << >>

GateIdle ==
    /\ cyc_kind = "normal"
    /\ sync_log_by_pass_period = << >>
    /\ sync_user_info_by_pass_period = << >>
    /\ cyc_now = <<0, 0>>
    /\ cyc_pc = "done"
    /\ sessions_for = {}

MarkerIdle ==
    /\ mk_now = 0
    /\ hr_modified = << >>
    /\ last_sync = << >>
    /\ mk_changed = {}
    /\ mk_failed = {}
    /\ mk_prev_failed = {}
    /\ mk_passes = 0
    /\ mk_pc = "idle"

ManualIdle ==
    /\ man_pc = "returned"
    /\ man_args = << >>
    /\ man_env = << >>
    /\ man_config = << >>
    /\ man_result = "none"

LeftIdle ==
    /\ erpnext_cleaned = << >>
    /\ worker_pc = << >>
    /\ worker_emp = << >>
    /\ hr_deletions = << >>
    /\ hr_raises = {}

AuxIdle(running) ==
    /\ running = "recreate" \/ RecreateIdle
    /\ running = "bypass" \/ BypassIdle
    /\ running = "service" \/ ServiceIdle
    /\ running = "main" \/ MainIdle
    /\ running = "ingest" \/ IngestIdle
    /\ running = "cursor" \/ CursorIdle
    /\ running = "record" \/ RecordIdle
    /\ running = "gate" \/ GateIdle
    /\ running = "marker" \/ MarkerIdle
    /\ running = "manual" \/ ManualIdle
    /\ running = "left" \/ LeftIdle

OTIdle ==
    /\ ot_records = << >>
    /\ hr_registrations = {}
    /\ hr_details = {}
    /\ post_ok = TRUE
    /\ grouped_requests = << >>
    /\ ot_pc = "idle"
    /\ ot_results = << >>
    /\ ot_counts = [created |-> 0, skipped_exists |-> 0, skipped_conflicts |-> 0,
                    failed |-> 0]

ClassifyIdle ==
    /\ cin = [rel |-> NoDate, delay_days |-> 0, delete_after_days |-> 0]
    /\ cout = [done |-> FALSE, ready |-> FALSE, action |-> "NoAction",
               device_delete |-> FALSE]

\* The cleanup engine starts with every terminal idle and any mix of terminal
\* conditions; a terminal is drawn either with every
\* employee enrolled or, when it has no fault, possibly with no user at all.
Init ==
    /\ hr_up \in BOOLEAN
    /\ rel_days \in [Employees -> RelChoices]
    /\ profile \in [Devices -> FaultProfiles]
    /\ \E empty \in SUBSET {d \in Devices : profile[d] = {}} : DevicesInit(empty)
    /\ EngineInit
    /\ ClassifyIdle
    /\ MasterIdle
    /\ OTIdle
    /\ StoreIdle
    /\ AuxIdle("none")

\* ------------------------------------------------------- the cleanup engine
DELAY_DAYS == CLEAR_LEFT_USER_TEMPLATES_RELIEVING_DELAY_DAYS
DELETE_AFTER_DAYS == ENABLE_DELETE_LEFT_USER_ON_DEVICES_AFTER_RELIEVING_DAYS

\* employee_data and device of the iteration clean_left_employee_complete is at.
Emp == left_employees[ei]
Dev == Len(device_results) + 1

Fails(d, op) == op \in profile[d]

FailedResult ==
    [success |-> FALSE, cleared_count |-> 0, deleted_count |-> 0, action_type |-> "None"]

\* What clear_employee_templates_from_device returns once the finally block is
\* done: the counts of the loop, or the error result of the outer except when
\* disable_device or get_users raised.
SessionResult ==
    IF cur.raised THEN FailedResult
    ELSE [success |-> TRUE, cleared_count |-> cur.cleared_count,
          deleted_count |-> cur.deleted_count, action_type |-> cur.action_type]

\* Variant of Return: the loop over the terminals stops at the first failure.
Return_abort_on_failure(result) ==
    /\ device_results' = Append(device_results, result)
    /\ pc' = IF Len(device_results) + 1 = NumDevices \/ ~result.success THEN "record"
             ELSE "check_device_connection"
    /\ cur' = NoLocals
    /\ existing_user_ids' = {}

\* clear_employee_templates_from_device returns `result`; the loop over
\* self.devices appends it and goes on with the next terminal, whatever it is.
Return(result) ==
    /\ device_results' = Append(device_results, result)
    /\ pc' = IF Len(device_results) + 1 = NumDevices THEN "record"
             ELSE "check_device_connection"
    /\ cur' = NoLocals
    /\ existing_user_ids' = {}

\* Variant of run_cleanup: the HR connection is not tested before the list of
\* Left employees is worked through.
run_cleanup_without_connection_test ==
    /\ pc = "idle"
    /\ cycle < MaxCycles
    /\ cycle' = cycle + 1
    /\ processed_at_start' = tracking.cleared \cup tracking.deleted
    /\ touched' = {}
    /\ mutated' = {}
    /\ writes' = [e \in Employees |-> 0]
    /\ left_employees' =
          get_left_employees_for_cleanup(rel_days, tracking.cleared \cup tracking.deleted)
    /\ ei' = IF left_employees' = << >> THEN 0 ELSE 1
    /\ pc' = IF left_employees' = << >> THEN "idle" ELSE "check_device_connection"
    /\ device_results' = << >>
    /\ UNCHANGED <<inputVars, deviceVars, notEngine, tracking, existing_user_ids, cur>>

\* run_cleanup up to the first employee: the HR connection test, then
\* get_left_employees_for_cleanup.
run_cleanup ==
    /\ pc = "idle"
    /\ cycle < MaxCycles
    /\ cycle' = cycle + 1
    /\ processed_at_start' = tracking.cleared \cup tracking.deleted
    /\ touched' = {}
    /\ mutated' = {}
    /\ writes' = [e \in Employees |-> 0]
    /\ left_employees' =
          IF hr_up
          THEN get_left_employees_for_cleanup(rel_days, tracking.cleared \cup tracking.deleted)
          ELSE << >>
    /\ ei' = IF left_employees' = << >> THEN 0 ELSE 1
    /\ pc' = IF left_employees' = << >> THEN "idle" ELSE "check_device_connection"
    /\ device_results' = << >>
    /\ UNCHANGED <<inputVars, deviceVars, notEngine, tracking, existing_user_ids, cur>>

check_device_connection ==
    /\ pc = "check_device_connection"
    /\ touched' = touched \cup {<<Emp, Dev>>}
    /\ IF Fails(Dev, "check_device_connection")
       THEN Return(FailedResult)
       ELSE /\ pc' = "connect"
            /\ UNCHANGED <<device_results, cur, existing_user_ids>>
    /\ UNCHANGED <<inputVars, deviceVars, notEngine, tracking, cycle, left_employees,
                   ei, processed_at_start, mutated, writes>>

\* zk.connect(): raises or returns nothing, and no session exists; or a session
\* is open.
connect ==
    /\ pc = "connect"
    /\ IF Fails(Dev, "connect")
       THEN /\ Return(FailedResult)
            /\ UNCHANGED sessions
       ELSE /\ sessions' = [sessions EXCEPT ![Dev] = @ + 1]
            /\ pc' = "disable_device"
            /\ UNCHANGED <<device_results, cur, existing_user_ids>>
    /\ UNCHANGED <<inputVars, users, templates, intake, notEngine, tracking, cycle,
                   left_employees, ei, processed_at_start, touched, mutated, writes>>

\* Variant of disable_device: the session goes on without disabling intake.
disable_device_skipped ==
    /\ pc = "disable_device"
    /\ pc' = "get_users"
    /\ UNCHANGED <<inputVars, deviceVars, notEngine, tracking, cycle, left_employees,
                   ei, device_results, existing_user_ids, cur, processed_at_start,
                   touched, mutated, writes>>

disable_device ==
    /\ pc = "disable_device"
    /\ IF Fails(Dev, "disable_device")
       THEN /\ cur' = [cur EXCEPT !.raised = TRUE]
            /\ pc' = "enable_device"
            /\ UNCHANGED intake
       ELSE /\ intake' = [intake EXCEPT ![Dev] = FALSE]
            /\ pc' = "get_users"
            /\ UNCHANGED cur
    /\ UNCHANGED <<inputVars, users, templates, sessions, notEngine, tracking, cycle,
                   left_employees, ei, device_results, existing_user_ids,
                   processed_at_start, touched, mutated, writes>>

get_users ==
    /\ pc = "get_users"
    /\ IF Fails(Dev, "get_users")
       THEN /\ cur' = [cur EXCEPT !.raised = TRUE]
            /\ pc' = "enable_device"
            /\ UNCHANGED existing_user_ids
       ELSE /\ existing_user_ids' = users[Dev]
            /\ pc' = "process"
            /\ UNCHANGED cur
    /\ UNCHANGED <<inputVars, deviceVars, notEngine, tracking, cycle, left_employees,
                   ei, device_results, processed_at_start, touched, mutated, writes>>

\* The body of the loop over left_employees, up to delete_user. The list holds
\* the one employee clean_left_employee_complete passes.
process_employee ==
    /\ pc = "process"
    /\ IF Emp \in existing_user_ids
       THEN IF Fails(Dev, "delete_user")
            THEN \* caught per employee: failed_employees
                 /\ pc' = "enable_device"
                 /\ UNCHANGED <<users, templates, mutated, cur>>
            ELSE /\ users' = [users EXCEPT ![Dev] = @ \ {Emp}]
                 /\ templates' = [templates EXCEPT ![Dev] = @ \ {Emp}]
                 /\ mutated' = mutated \cup {<<Emp, Dev>>}
                 /\ IF device_should_delete(rel_days[Emp], DELETE_AFTER_DAYS)
                    THEN /\ cur' = [cur EXCEPT !.deleted_count = 1,
                                               !.action_type = "deleted"]
                         /\ pc' = "enable_device"
                    ELSE /\ pc' = "set_user"
                         /\ UNCHANGED cur
       ELSE /\ cur' = [cur EXCEPT !.action_type =
                          expected_action_type(rel_days[Emp], DELETE_AFTER_DAYS)]
            /\ pc' = "enable_device"
            /\ UNCHANGED <<users, templates, mutated>>
    /\ UNCHANGED <<inputVars, intake, sessions, notEngine, tracking, cycle,
                   left_employees, ei, device_results, existing_user_ids,
                   processed_at_start, touched, writes>>

\* Step 2 of the clear: the user is recreated with no template.
set_user ==
    /\ pc = "set_user"
    /\ IF Fails(Dev, "set_user")
       THEN UNCHANGED <<users, mutated, cur>>
       ELSE /\ users' = [users EXCEPT ![Dev] = @ \cup {Emp}]
            /\ mutated' = mutated \cup {<<Emp, Dev>>}
            /\ cur' = [cur EXCEPT !.cleared_count = 1, !.action_type = "cleared"]
    /\ pc' = "enable_device"
    /\ UNCHANGED <<inputVars, templates, intake, sessions, notEngine, tracking, cycle,
                   left_employees, ei, device_results, existing_user_ids,
                   processed_at_start, touched, writes>>

\* finally: try: conn.enable_device(); conn.disconnect() except: pass
\* When enable_device raises, the except swallows it and disconnect is skipped.
enable_device ==
    /\ pc = "enable_device"
    /\ IF Fails(Dev, "enable_device")
       THEN /\ Return(SessionResult)
            /\ UNCHANGED intake
       ELSE /\ intake' = [intake EXCEPT ![Dev] = TRUE]
            /\ pc' = "disconnect"
            /\ UNCHANGED <<device_results, cur, existing_user_ids>>
    /\ UNCHANGED <<inputVars, users, templates, sessions, notEngine, tracking, cycle,
                   left_employees, ei, processed_at_start, touched, mutated, writes>>

disconnect ==
    /\ pc = "disconnect"
    /\ sessions' = IF Fails(Dev, "disconnect") THEN sessions
                   ELSE [sessions EXCEPT ![Dev] = @ - 1]
    /\ Return(SessionResult)
    /\ UNCHANGED <<inputVars, users, templates, intake, notEngine, tracking, cycle,
                   left_employees, ei, processed_at_start, touched, mutated, writes>>

\* ------------------------------------------------------------ tracking file
device_success(results) ==
    \E i \in 1..Len(results) :
        results[i].cleared_count > 0 \/ results[i].deleted_count > 0

\* "Use first non-None action type".
final_action_type(results) ==
    LET with == {i \in 1..Len(results) : results[i].action_type # "None"}
    IN  IF with = {} THEN "None"
        ELSE results[CHOOSE i \in with : \A j \in with : i <= j].action_type

\* Variant of recorded_action: a record only when a terminal was changed.
recorded_action_on_device_success(results) ==
    IF device_success(results) THEN final_action_type(results) ELSE "None"

\* The action clean_left_employee_complete records, "None" when it records
\* nothing.
recorded_action(results) ==
    IF device_success(results)
       \/ (~device_success(results) /\ \E i \in 1..Len(results) : results[i].success)
    THEN IF final_action_type(results) # "None" THEN final_action_type(results)
         ELSE IF ~device_success(results) THEN "cleared"
         ELSE "None"
    ELSE "None"

\* Variant of add_processed_employee: the record is not saved.
add_processed_employee_lost(trk, e, action_type) == trk

\* add_processed_employee: load, set the employee's record, save.
add_processed_employee(trk, e, action_type) ==
    IF action_type = "cleared" THEN [trk EXCEPT !.cleared = @ \cup {e}]
    ELSE IF action_type = "deleted" THEN [trk EXCEPT !.deleted = @ \cup {e}]
    ELSE trk

\* Variant of clean_left_employee_complete: the record is written as soon as
\* one terminal is done.
clean_left_employee_complete_per_device ==
    /\ pc = "check_device_connection"
    /\ device_results # << >>
    /\ recorded_action(device_results) # "None"
    /\ Emp \notin tracking.cleared \cup tracking.deleted
    /\ tracking' = add_processed_employee(tracking, Emp, recorded_action(device_results))
    /\ writes' = [writes EXCEPT ![Emp] = @ + 1]
    /\ UNCHANGED <<inputVars, deviceVars, notEngine, pc, cycle, left_employees, ei,
                   device_results, existing_user_ids, cur, processed_at_start, touched,
                   mutated>>

\* clean_left_employee_complete after the loop over the terminals, then the
\* next employee of run_cleanup, or its end.
clean_left_employee_complete ==
    /\ pc = "record"
    /\ LET action == recorded_action(device_results)
       IN  /\ tracking' = add_processed_employee(tracking, Emp, action)
           /\ writes' = IF action = "None" THEN writes
                        ELSE [writes EXCEPT ![Emp] = @ + 1]
    /\ device_results' = << >>
    /\ IF ei < Len(left_employees)
       THEN /\ ei' = ei + 1
            /\ pc' = "check_device_connection"
       ELSE /\ ei' = 0
            /\ pc' = "idle"
    /\ UNCHANGED <<inputVars, deviceVars, notEngine, cycle, left_employees,
                   existing_user_ids, cur, processed_at_start, touched, mutated>>

\* The process is killed between two terminals of an employee's pass.
interrupt ==
    /\ pc = "check_device_connection"
    /\ pc' = "crashed"
    /\ UNCHANGED <<inputVars, deviceVars, notEngine, tracking, cycle, left_employees,
                   ei, device_results, existing_user_ids, cur, processed_at_start,
                   touched, mutated, writes>>

Next ==
    \/ run_cleanup
    \/ check_device_connection
    \/ connect
    \/ disable_device
    \/ get_users
    \/ process_employee
    \/ set_user
    \/ enable_device
    \/ disconnect
    \/ clean_left_employee_complete
    \/ interrupt

Spec == Init /\ [][Next]_vars

\* --------------------------------------------------- classification alone
DayChoices == {NoDate, Unparseable} \cup {<<n>> : n \in (0 - 1)..MaxDays}

InitClassify ==
    /\ cin \in [rel : DayChoices, delay_days : 0..MaxDays, delete_after_days : 0..MaxDays]
    /\ cout = [done |-> FALSE, ready |-> FALSE, action |-> "NoAction",
               device_delete |-> FALSE]
    /\ hr_up = TRUE
    /\ rel_days = [e \in Employees |-> NoDate]
    /\ profile = [d \in Devices |-> {}]
    /\ DevicesInit({})
    /\ EngineInit
    /\ tracking.cleared = {}
    /\ MasterIdle
    /\ OTIdle
    /\ StoreIdle
    /\ AuxIdle("none")

\* One employee through the HR client's date validation, the filter of
\* get_left_employees_for_cleanup and the decision taken inside the session.
classify_employee ==
    /\ ~cout.done
    /\ cout' = [done |-> TRUE,
                ready |-> /\ date_validated(cin.rel)
                          /\ classify(cin.rel, cin.delay_days, cin.delete_after_days)
                                # "NoAction",
                action |-> classify(cin.rel, cin.delay_days, cin.delete_after_days),
                device_delete |-> device_should_delete(cin.rel, cin.delete_after_days)]
    /\ UNCHANGED <<inputVars, deviceVars, engineVars, masterVars, otVars, storeVars,
                   auxVars, cin>>

NextClassify == classify_employee

SpecClassify == InitClassify /\ [][NextClassify]_vars

\* ------------------------------------------- master terminal to the targets
\* manual_run_functions/sync_all_from_master_device_to_other_devices.py:
\* sync_all_users reads the users with fingerprints from the master terminal,
\* then for each of them sync_user_to_all_targets runs one sync_user_to_device
\* per target terminal in a thread pool.

\* config.devices_master has the address of the first entry of config.devices.
Master == 1

MAX_WORKERS == 5

\* "thread_raises" is a worker whose future ends with an exception instead of a
\* result; "set_user_dropped" is a set_user the terminal does not store.
MasterOps ==
    {"thread_raises", "connect", "disable_device", "get_users", "delete_user", "set_user",
     "set_user_dropped", "save_user_template", "enable_device", "disconnect"}

MasterFaultProfiles == {{}} \cup {{op} : op \in MasterOps}

\* The master holds every employee, the first k of them with fingerprints; the
\* other targets hold every employee but the last.
InitMaster ==
    /\ hr_up = TRUE
    /\ rel_days = [e \in Employees |-> NoDate]
    /\ profile \in [Devices -> MasterFaultProfiles]
    /\ users = [d \in Devices |-> IF d = Master THEN Employees
                                  ELSE Employees \ {NumEmployees}]
    /\ \E k \in 0..NumEmployees :
          templates = [d \in Devices |-> IF d = Master THEN 1..k ELSE users[d]]
    /\ intake = [d \in Devices |-> TRUE]
    /\ sessions = [d \in Devices |-> 0]
    /\ EngineInit
    /\ tracking.cleared = {}
    /\ ClassifyIdle
    /\ MasterIdle
    /\ OTIdle
    /\ StoreIdle
    /\ AuxIdle("none")

\* user_data of the iteration sync_all_users is at.
User == users_data[ui]

\* users_with_fingerprints, in the order get_users lists the users.
users_with_fingerprints(d) ==
    SelectSeq(EmployeeList, LAMBDA e : e \in users[d] /\ e \in templates[d])

\* get_all_users_with_fingerprints returns `data` to sync_all_users, which
\* stops when it is empty and otherwise submits the first user's workers.
ScanReturn(data) ==
    /\ users_data' = data
    /\ IF data = << >>
       THEN /\ scan_pc' = "finished"
            /\ UNCHANGED <<ui, mpc>>
       ELSE /\ scan_pc' = "returned"
            /\ ui' = 1
            /\ mpc' = [d \in Devices |-> "connect"]

sync_all_users ==
    /\ scan_pc = "idle"
    /\ scan_pc' = "connect"
    /\ UNCHANGED <<inputVars, deviceVars, notMaster, users_data, ui,
                   mpc, m_results>>

scan_connect ==
    /\ scan_pc = "connect"
    /\ IF Fails(Master, "connect")
       THEN /\ ScanReturn(<< >>)
            /\ UNCHANGED sessions
       ELSE /\ sessions' = [sessions EXCEPT ![Master] = @ + 1]
            /\ scan_pc' = "disable_device"
            /\ UNCHANGED <<users_data, ui, mpc>>
    /\ UNCHANGED <<inputVars, users, templates, intake, notMaster, m_results>>

\* From here on an exception goes to the except of the function, which returns
\* []: there is no finally.
scan_disable_device ==
    /\ scan_pc = "disable_device"
    /\ IF Fails(Master, "disable_device")
       THEN /\ ScanReturn(<< >>)
            /\ UNCHANGED intake
       ELSE /\ intake' = [intake EXCEPT ![Master] = FALSE]
            /\ scan_pc' = "get_users"
            /\ UNCHANGED <<users_data, ui, mpc>>
    /\ UNCHANGED <<inputVars, users, templates, sessions, notMaster, m_results>>

\* get_users, then the templates of every user; an error on one finger or one
\* user is skipped.
scan_get_users ==
    /\ scan_pc = "get_users"
    /\ IF Fails(Master, "get_users")
       THEN ScanReturn(<< >>)
       ELSE /\ users_data' = users_with_fingerprints(Master)
            /\ scan_pc' = "enable_device"
            /\ UNCHANGED <<ui, mpc>>
    /\ UNCHANGED <<inputVars, deviceVars, notMaster, m_results>>

scan_enable_device ==
    /\ scan_pc = "enable_device"
    /\ IF Fails(Master, "enable_device")
       THEN /\ ScanReturn(<< >>)
            /\ UNCHANGED intake
       ELSE /\ intake' = [intake EXCEPT ![Master] = TRUE]
            /\ scan_pc' = "disconnect"
            /\ UNCHANGED <<users_data, ui, mpc>>
    /\ UNCHANGED <<inputVars, users, templates, sessions, notMaster, m_results>>

scan_disconnect ==
    /\ scan_pc = "disconnect"
    /\ IF Fails(Master, "disconnect")
       THEN /\ ScanReturn(<< >>)
            /\ UNCHANGED sessions
       ELSE /\ sessions' = [sessions EXCEPT ![Master] = @ - 1]
            /\ ScanReturn(users_data)
    /\ UNCHANGED <<inputVars, users, templates, intake, notMaster, m_results>>

\* Threads of the pool that are inside sync_user_to_device.
Running == {d \in Devices : mpc[d] \notin {"idle", "connect", "done"}}

PoolSize == IF NumDevices < MAX_WORKERS THEN NumDevices ELSE MAX_WORKERS

\* future.result() raises: sync_user_to_all_targets appends the error_result it
\* builds in its except branch.
SyncRaise(d) ==
    /\ mpc' = [mpc EXCEPT ![d] = "done"]
    /\ m_results' = Append(m_results, [device |-> d, success |-> FALSE])

\* Variant of SyncReturn: only the first result is kept.
SyncReturn_first_only(d, success) ==
    /\ mpc' = [mpc EXCEPT ![d] = "done"]
    /\ m_results' = IF m_results = << >>
                    THEN Append(m_results, [device |-> d, success |-> success])
                    ELSE m_results

\* sync_user_to_device returns; as_completed hands the result to
\* sync_user_to_all_targets, which appends it.
SyncReturn(d, success) ==
    /\ mpc' = [mpc EXCEPT ![d] = "done"]
    /\ m_results' = Append(m_results, [device |-> d, success |-> success])

sync_connect(d) ==
    /\ mpc[d] = "connect"
    /\ Cardinality(Running) < PoolSize
    /\ IF Fails(d, "thread_raises")
       THEN /\ SyncRaise(d)
            /\ UNCHANGED sessions
       ELSE IF Fails(d, "connect")
       THEN /\ SyncReturn(d, FALSE)
            /\ UNCHANGED sessions
       ELSE /\ sessions' = [sessions EXCEPT ![d] = @ + 1]
            /\ mpc' = [mpc EXCEPT ![d] = "disable_device"]
            /\ UNCHANGED m_results
    /\ UNCHANGED <<inputVars, users, templates, intake, notMaster, scan_pc, users_data, ui>>

\* From here on an exception goes to the except of the function, which returns
\* the error result: there is no finally.
sync_disable_device(d) ==
    /\ mpc[d] = "disable_device"
    /\ IF Fails(d, "disable_device")
       THEN /\ SyncReturn(d, FALSE)
            /\ UNCHANGED intake
       ELSE /\ intake' = [intake EXCEPT ![d] = FALSE]
            /\ mpc' = [mpc EXCEPT ![d] = "get_users"]
            /\ UNCHANGED m_results
    /\ UNCHANGED <<inputVars, users, templates, sessions, notMaster, scan_pc, users_data, ui>>

sync_get_users(d) ==
    /\ mpc[d] = "get_users"
    /\ IF Fails(d, "get_users")
       THEN SyncReturn(d, FALSE)
       ELSE /\ mpc' = [mpc EXCEPT ![d] = IF User \in users[d] THEN "delete_user"
                                         ELSE "set_user"]
            /\ UNCHANGED m_results
    /\ UNCHANGED <<inputVars, deviceVars, notMaster, scan_pc,
                   users_data, ui>>

sync_delete_user(d) ==
    /\ mpc[d] = "delete_user"
    /\ IF Fails(d, "delete_user")
       THEN /\ SyncReturn(d, FALSE)
            /\ UNCHANGED <<users, templates>>
       ELSE /\ users' = [users EXCEPT ![d] = @ \ {User}]
            /\ templates' = [templates EXCEPT ![d] = @ \ {User}]
            /\ mpc' = [mpc EXCEPT ![d] = "set_user"]
            /\ UNCHANGED m_results
    /\ UNCHANGED <<inputVars, intake, sessions, notMaster, scan_pc,
                   users_data, ui>>

\* set_user raises, or returns without the terminal having stored the user, or
\* creates the user.
sync_set_user(d) ==
    /\ mpc[d] = "set_user"
    /\ IF Fails(d, "set_user")
       THEN /\ SyncReturn(d, FALSE)
            /\ UNCHANGED users
       ELSE /\ users' = IF Fails(d, "set_user_dropped") THEN users
                        ELSE [users EXCEPT ![d] = @ \cup {User}]
            /\ mpc' = [mpc EXCEPT ![d] = "verify"]
            /\ UNCHANGED m_results
    /\ UNCHANGED <<inputVars, templates, intake, sessions, notMaster, scan_pc, users_data, ui>>

\* "Verify user creation": get_users again; the routine returns "Failed to
\* create user" when the user is not in the list.
sync_verify(d) ==
    /\ mpc[d] = "verify"
    /\ IF Fails(d, "get_users") \/ User \notin users[d]
       THEN SyncReturn(d, FALSE)
       ELSE /\ mpc' = [mpc EXCEPT ![d] = "save_user_template"]
            /\ UNCHANGED m_results
    /\ UNCHANGED <<inputVars, deviceVars, notMaster, scan_pc,
                   users_data, ui>>

sync_save_user_template(d) ==
    /\ mpc[d] = "save_user_template"
    /\ IF Fails(d, "save_user_template")
       THEN /\ SyncReturn(d, FALSE)
            /\ UNCHANGED templates
       ELSE /\ templates' = [templates EXCEPT ![d] = @ \cup {User}]
            /\ mpc' = [mpc EXCEPT ![d] = "enable_device"]
            /\ UNCHANGED m_results
    /\ UNCHANGED <<inputVars, users, intake, sessions, notMaster, scan_pc, users_data, ui>>

sync_enable_device(d) ==
    /\ mpc[d] = "enable_device"
    /\ IF Fails(d, "enable_device")
       THEN /\ SyncReturn(d, FALSE)
            /\ UNCHANGED intake
       ELSE /\ intake' = [intake EXCEPT ![d] = TRUE]
            /\ mpc' = [mpc EXCEPT ![d] = "disconnect"]
            /\ UNCHANGED m_results
    /\ UNCHANGED <<inputVars, users, templates, sessions, notMaster, scan_pc, users_data, ui>>

sync_disconnect(d) ==
    /\ mpc[d] = "disconnect"
    /\ IF Fails(d, "disconnect")
       THEN /\ SyncReturn(d, FALSE)
            /\ UNCHANGED sessions
       ELSE /\ sessions' = [sessions EXCEPT ![d] = @ - 1]
            /\ SyncReturn(d, TRUE)
    /\ UNCHANGED <<inputVars, users, templates, intake, notMaster, scan_pc, users_data, ui>>

\* sync_user_to_all_targets returns when the pool is drained; sync_all_users
\* goes on with the next user, or ends.
sync_user_to_all_targets ==
    /\ scan_pc = "returned"
    /\ \A d \in Devices : mpc[d] = "done"
    /\ IF ui < Len(users_data)
       THEN /\ ui' = ui + 1
            /\ mpc' = [d \in Devices |-> "connect"]
            /\ m_results' = << >>
            /\ UNCHANGED scan_pc
       ELSE /\ scan_pc' = "finished"
            /\ UNCHANGED <<ui, mpc, m_results>>
    /\ UNCHANGED <<inputVars, deviceVars, notMaster, users_data>>

NextMaster ==
    \/ sync_all_users
    \/ scan_connect
    \/ scan_disable_device
    \/ scan_get_users
    \/ scan_enable_device
    \/ scan_disconnect
    \/ \E d \in Devices : sync_connect(d)
    \/ \E d \in Devices : sync_disable_device(d)
    \/ \E d \in Devices : sync_get_users(d)
    \/ \E d \in Devices : sync_delete_user(d)
    \/ \E d \in Devices : sync_set_user(d)
    \/ \E d \in Devices : sync_verify(d)
    \/ \E d \in Devices : sync_save_user_template(d)
    \/ \E d \in Devices : sync_enable_device(d)
    \/ \E d \in Devices : sync_disconnect(d)
    \/ sync_user_to_all_targets

SpecMaster == InitMaster /\ [][NextMaster]_vars

\* ------------------------------------------------------------------ claims
Tracked == tracking.cleared \cup tracking.deleted

\* The employees of this cycle's list whose pass over the terminals is over.
Passed ==
    {left_employees[i] : i \in {j \in 1..Len(left_employees) : pc = "idle" \/ j < ei}}

\* The session on terminal d gets as far as the loop over the employees: the
\* routine returns success = True.
Answers(d) ==
    profile[d] \cap {"check_device_connection", "connect", "disable_device", "get_users"} = {}

Ready(e) ==
    /\ date_validated(rel_days[e])
    /\ classify(rel_days[e], DELAY_DAYS, DELETE_AFTER_DAYS) # "NoAction"

C3_PurgePrecedence ==
    (/\ cout.done
     /\ HasDate(cin.rel)
     /\ cin.delete_after_days > 0
     /\ DaysSince(cin.rel) > cin.delete_after_days)
    => (cout.action = "Purge" /\ cout.device_delete /\ cout.ready)

\* Both tests pass for the employee: old enough to purge and to clear.
C3_Witness ==
    /\ cout.done
    /\ HasDate(cin.rel)
    /\ cin.delete_after_days > 0
    /\ DaysSince(cin.rel) > cin.delete_after_days
    /\ DaysSince(cin.rel) >= cin.delay_days
    /\ cin.delay_days > cin.delete_after_days
    /\ cout.action = "Purge"

\* C4, as claimed: every employee whose pass over the terminals is over has had
\* exactly one tracking record written in this cycle.
C4_OneRecordWhateverSucceeded == \A e \in Passed : writes[e] = 1

\* C4, amended: exactly one record when at least one terminal's session
\* returned success, none when every terminal failed.
C4_OneRecordIfAnyTerminalAnswered ==
    \A e \in Passed :
        writes[e] = IF \E d \in Devices : Answers(d) THEN 1 ELSE 0

\* An employee recorded although no terminal did a clear or a delete for them.
C4_Witness ==
    /\ pc = "idle"
    /\ \E e \in Passed :
          /\ writes[e] = 1
          /\ \A d \in Devices : <<e, d>> \notin mutated
          /\ \E d \in Devices : ~Answers(d)

\* C5: while an employee's pass over the terminals is not over (also when the
\* process was killed in it), the tracking file holds no record for that
\* employee; and no employee gets two records in a cycle.
C5_NoRecordBeforeAllTerminals ==
    /\ pc # "idle" => (writes[Emp] = 0 /\ Emp \notin Tracked)
    /\ \A e \in Employees : writes[e] <= 1

\* Killed after a terminal was changed and before the last terminal.
C5_Witness ==
    /\ pc = "crashed"
    /\ Len(device_results) < NumDevices
    /\ \E d \in Devices : <<Emp, d>> \in mutated

\* No session routine of the cleanup engine is running.
BetweenSessions == pc \in {"idle", "check_device_connection", "record", "crashed"}

\* C6: once a session routine has returned, the session it opened on the
\* terminal is closed, unless the terminal refuses the disconnect itself.
C6_SessionAlwaysClosed ==
    BetweenSessions =>
        \A d \in Devices : sessions[d] > 0 => Fails(d, "disconnect")

\* No session routine of the master sync is running on terminal d.
SessionOver(d) ==
    /\ scan_pc \in {"returned", "finished"}
    /\ mpc[d] \in {"idle", "connect", "done"}

\* C7: once a session routine has returned, the terminal takes punches again,
\* unless the terminal refuses the enable command itself.
C7_IntakeReenabled ==
    \A d \in Devices :
        SessionOver(d) => (intake[d] \/ Fails(d, "enable_device"))

\* C8: a terminal never has two sessions open.
C8_OneSessionPerTerminal == \A d \in Devices : sessions[d] <= 1

\* C9: every step that changes the users or the templates of a terminal is
\* taken on the terminal of the open session, while its intake is disabled,
\* and leaves the intake disabled: disable, then mutate, then enable.
C9_MutationInsideDisabledWindow ==
    [][(users' # users \/ templates' # templates) =>
          /\ sessions[Dev] >= 1
          /\ ~intake[Dev]
          /\ intake' = intake
          /\ \A d \in Devices \ {Dev} :
                users'[d] = users[d] /\ templates'[d] = templates[d]]_vars

\* A user was deleted and recreated, and intake is about to be enabled again.
C9_Witness ==
    /\ pc = "enable_device"
    /\ <<Emp, Dev>> \in mutated
    /\ cur.cleared_count = 1
    /\ ~intake[Dev]

\* C10: when the loop over the terminals is over, every terminal has been
\* attempted and has a result, and on every terminal without a fault the work
\* is complete: success, and no template of the employee left.
C10_FailureDoesNotStopOthers ==
    pc = "record" =>
        /\ Len(device_results) = NumDevices
        /\ \A d \in Devices :
              /\ <<Emp, d>> \in touched
              /\ profile[d] = {} => (device_results[d].success /\ Emp \notin templates[d])

\* A terminal failed and a later terminal was cleaned.
C10_Witness ==
    /\ pc = "record"
    /\ \E d1, d2 \in Devices :
          /\ d1 < d2
          /\ ~device_results[d1].success
          /\ device_results[d2].cleared_count + device_results[d2].deleted_count = 1

\* The terminals whose worker of the current user has ended.
Completed == {d \in Devices : mpc[d] = "done"}

success_count == Cardinality({i \in 1..Len(m_results) : m_results[i].success})

failure_count == Cardinality({i \in 1..Len(m_results) : ~m_results[i].success})

\* C11: the result list of sync_user_to_all_targets holds exactly one outcome
\* for every terminal whose worker has ended, also when the worker raised, and
\* none for the others; when the pool is drained the list has one outcome per
\* terminal and the successes and failures add up to the number of terminals.
C11_OneOutcomePerTerminal ==
    /\ \A d \in Devices :
          Cardinality({i \in 1..Len(m_results) : m_results[i].device = d})
             = IF d \in Completed THEN 1 ELSE 0
    /\ Completed = Devices =>
          /\ Len(m_results) = NumDevices
          /\ success_count + failure_count = NumDevices

\* The pool is drained; one worker raised and another one succeeded.
C11_Witness ==
    /\ Completed = Devices
    /\ \E i, j \in 1..Len(m_results) :
          /\ Fails(m_results[i].device, "thread_raises")
          /\ m_results[j].success

\* The step that starts the work for the current employee on terminal d.
start_on(d) == check_device_connection /\ Dev = d

\* The pass of the current employee over the terminals is under way.
PassUnderWay ==
    pc \in {"check_device_connection", "connect", "disable_device", "get_users",
            "process", "set_user", "enable_device", "disconnect"}

\* C12: while the pass of an employee is under way, the work on any terminal
\* that has not been started can start at once, whatever the other terminals
\* are doing: no terminal waits for another one.
C12_TerminalsStartIndependently ==
    PassUnderWay =>
        \A d \in Devices : <<Emp, d>> \notin touched => ENABLED start_on(d)

\* -------------------------------------------- overtime records to the HR system
\* 05.sync_ot_from_mongodb_to_erpnext.py: sync_ot_to_erpnext fetches the OT
\* records in ascending _id, removes the duplicates, groups the rest by
\* requestNo and creates one Overtime Registration per request.
MaxEvents == 3
MaxHour == 1
MaxWindows == 2
MaxDuration == 4
MaxRecords == 2

\* What a record holds for (otDate, empId, otTimeBegin, otTimeEnd): nothing
\* usable when one of the four is missing, else <<slot, n>> where slot stands
\* for the employee, the day and the hours, and n is the length of the time
\* strings as written, "HH:MM" (5) or "HH:MM:SS" (8). Slot "c" is a record
\* whose otDate is held as text, not as a date.
MissingField == << >>
KeyChoices == {MissingField, <<"a", 5>>, <<"a", 8>>, <<"b", 5>>, <<"c", 5>>}

\* requestNo, "" when the record has none.
ReqChoices == {"", "R1", "R2"}

\* unique_key of deduplicate_records: the four fields as written.
unique_key(record) == record.key

\* The detail row create_ot_registration builds: the times brought to
\* HH:MM:SS.
detail_row(record) == record.key[1]

\* create_ot_registration builds a row only from an otDate that is a date.
valid_date(record) == record.key[1] # "c"

InitOT ==
    /\ \E n \in 0..MaxEvents :
          \E ks \in [1..n -> KeyChoices], rs \in [1..n -> ReqChoices] :
              ot_records = [i \in 1..n |-> [id |-> i, key |-> ks[i], req |-> rs[i]]]
    /\ hr_registrations \in SUBSET {"R1"}
    /\ hr_details \in SUBSET {"a", "b"}
    /\ post_ok \in BOOLEAN
    /\ grouped_requests = << >>
    /\ ot_pc = "idle"
    /\ ot_results = << >>
    /\ ot_counts = [created |-> 0, skipped_exists |-> 0, skipped_conflicts |-> 0,
                    failed |-> 0]
    /\ hr_up = TRUE
    /\ rel_days = [e \in Employees |-> NoDate]
    /\ profile = [d \in Devices |-> {}]
    /\ DevicesInit({})
    /\ EngineInit
    /\ tracking.cleared = {}
    /\ ClassifyIdle
    /\ MasterIdle
    /\ StoreIdle
    /\ AuxIdle("none")

\* The index in unique_records of the record with this key, 0 when none.
IndexOfKey(unique_records, k) ==
    IF \E j \in 1..Len(unique_records) : unique_key(unique_records[j]) = k
    THEN CHOOSE j \in 1..Len(unique_records) : unique_key(unique_records[j]) = k
    ELSE 0

\* Variant of KeepRecord: the later record replaces the one held.
KeepRecord_last_wins(unique_records, record) ==
    LET j == IndexOfKey(unique_records, unique_key(record))
    IN  IF unique_key(record) = MissingField THEN unique_records
        ELSE IF j = 0 THEN Append(unique_records, record)
        ELSE [unique_records EXCEPT ![j] = record]

\* One turn of the loop of deduplicate_records. unique_records is a dict: a
\* replaced record keeps the place of the key.
KeepRecord(unique_records, record) ==
    LET j == IndexOfKey(unique_records, unique_key(record))
    IN  IF unique_key(record) = MissingField THEN unique_records
        ELSE IF j = 0 THEN Append(unique_records, record)
        ELSE IF record.id < unique_records[j].id
             THEN [unique_records EXCEPT ![j] = record]
        ELSE unique_records

RECURSIVE DedupFrom(_, _, _)
DedupFrom(records, i, unique_records) ==
    IF i > Len(records) THEN unique_records
    ELSE DedupFrom(records, i + 1, KeepRecord(unique_records, records[i]))

deduplicate_records(records) == DedupFrom(records, 1, << >>)

\* The request numbers in the order the dict `grouped` receives them.
RECURSIVE RequestOrder(_, _, _)
RequestOrder(records, i, seen) ==
    IF i > Len(records) THEN seen
    ELSE IF records[i].req = "" \/ \E j \in 1..Len(seen) : seen[j] = records[i].req
         THEN RequestOrder(records, i + 1, seen)
    ELSE RequestOrder(records, i + 1, Append(seen, records[i].req))

\* group_records_by_request, as the list of the items of the dict it returns.
group_records_by_request(records) ==
    LET deduplicated_records == deduplicate_records(records)
        order == RequestOrder(deduplicated_records, 1, << >>)
    IN  [q \in 1..Len(order) |->
            [request_no |-> order[q],
             records |-> SelectSeq(deduplicated_records,
                                   LAMBDA r : r.req = order[q])]]

\* The request the loop of sync_ot_to_erpnext is at.
Request == grouped_requests[Len(ot_results) + 1]

\* check_employee_ot_conflict: the HR system holds a detail with the same
\* employee, date, begin_time and end_time.
check_employee_ot_conflict(record) == detail_row(record) \in hr_details

\* Variant of create_result: one conflicting row makes the request a skip.
create_result_skip_on_any_conflict(request_no, records) ==
    LET skipped_employees ==
            SelectSeq(records, LAMBDA r : valid_date(r) /\ check_employee_ot_conflict(r))
        ot_employees ==
            SelectSeq(records, LAMBDA r : valid_date(r) /\ ~check_employee_ot_conflict(r))
    IN  IF request_no \in hr_registrations
        THEN [success |-> TRUE, skipped |-> TRUE, message |-> "Already exists",
              ot_employees |-> << >>, skipped_employees |-> << >>]
        ELSE IF skipped_employees # << >>
        THEN [success |-> TRUE, skipped |-> TRUE,
              message |-> "All employees have existing OT",
              ot_employees |-> << >>, skipped_employees |-> skipped_employees]
        ELSE IF post_ok
        THEN [success |-> TRUE, skipped |-> FALSE, message |-> "Created",
              ot_employees |-> ot_employees, skipped_employees |-> skipped_employees]
        ELSE [success |-> FALSE, skipped |-> FALSE, message |-> "ERPNext error",
              ot_employees |-> << >>, skipped_employees |-> skipped_employees]

\* The result create_ot_registration returns; ot_employees is the list it
\* posts, empty when it posts nothing or the HR system refuses.
create_result(request_no, records) ==
    LET skipped_employees ==
            SelectSeq(records, LAMBDA r : valid_date(r) /\ check_employee_ot_conflict(r))
        ot_employees ==
            SelectSeq(records, LAMBDA r : valid_date(r) /\ ~check_employee_ot_conflict(r))
    IN  IF request_no \in hr_registrations
        THEN [success |-> TRUE, skipped |-> TRUE, message |-> "Already exists",
              ot_employees |-> << >>, skipped_employees |-> << >>]
        ELSE IF ot_employees = << >> /\ skipped_employees # << >>
        THEN [success |-> TRUE, skipped |-> TRUE,
              message |-> "All employees have existing OT",
              ot_employees |-> << >>, skipped_employees |-> skipped_employees]
        ELSE IF ot_employees = << >>
        THEN [success |-> FALSE, skipped |-> FALSE,
              message |-> "No valid employee records",
              ot_employees |-> << >>, skipped_employees |-> << >>]
        ELSE IF post_ok
        THEN [success |-> TRUE, skipped |-> FALSE, message |-> "Created",
              ot_employees |-> ot_employees, skipped_employees |-> skipped_employees]
        ELSE [success |-> FALSE, skipped |-> FALSE, message |-> "ERPNext error",
              ot_employees |-> << >>, skipped_employees |-> skipped_employees]

\* Variant of count_result: a request skipped for conflicts counts as failed.
count_result_conflict_as_failure(counts, result) ==
    IF result.success /\ ~result.skipped
    THEN [counts EXCEPT !.created = @ + 1]
    ELSE IF result.success /\ result.message = "Already exists"
    THEN [counts EXCEPT !.skipped_exists = @ + 1]
    ELSE [counts EXCEPT !.failed = @ + 1]

\* The counters of sync_ot_to_erpnext after one result.
count_result(counts, result) ==
    IF result.success
    THEN IF result.skipped
         THEN IF result.message = "Already exists"
              THEN [counts EXCEPT !.skipped_exists = @ + 1]
              ELSE IF result.message = "All employees have existing OT"
              THEN [counts EXCEPT !.skipped_conflicts = @ + 1]
              ELSE [counts EXCEPT !.skipped_exists = @ + 1]
         ELSE [counts EXCEPT !.created = @ + 1]
    ELSE [counts EXCEPT !.failed = @ + 1]

\* sync_ot_to_erpnext up to the loop over the requests.
sync_ot_to_erpnext ==
    /\ ot_pc = "idle"
    /\ IF ot_records = << >>
       THEN /\ ot_pc' = "done"
            /\ UNCHANGED grouped_requests
       ELSE /\ grouped_requests' = group_records_by_request(ot_records)
            /\ ot_pc' = "sync"
    /\ UNCHANGED <<notOT, ot_records, hr_registrations, hr_details, post_ok, ot_results,
                   ot_counts>>

\* One turn of the loop: create_ot_registration for the request, then the
\* counters.
create_ot_registration ==
    /\ ot_pc = "sync"
    /\ Len(ot_results) < Len(grouped_requests)
    /\ LET result == create_result(Request.request_no, Request.records)
           created == result.success /\ ~result.skipped
       IN  /\ ot_results' = Append(ot_results,
                 [request_no |-> Request.request_no, result |-> result,
                  existed |-> Request.request_no \in hr_registrations,
                  conflicts |-> hr_details])
           /\ ot_counts' = count_result(ot_counts, result)
           /\ hr_registrations' = IF created
                                  THEN hr_registrations \cup {Request.request_no}
                                  ELSE hr_registrations
           /\ hr_details' = IF created
                            THEN hr_details \cup
                                 {detail_row(result.ot_employees[i]) :
                                     i \in 1..Len(result.ot_employees)}
                            ELSE hr_details
    /\ UNCHANGED <<notOT, ot_records, post_ok, grouped_requests, ot_pc>>

\* After the loop: the cursor is saved and the summary returned.
save_last_synced_id ==
    /\ ot_pc = "sync"
    /\ Len(ot_results) = Len(grouped_requests)
    /\ ot_pc' = "done"
    /\ UNCHANGED <<notOT, ot_records, hr_registrations, hr_details, post_ok,
                   grouped_requests, ot_results, ot_counts>>

NextOT ==
    \/ sync_ot_to_erpnext
    \/ create_ot_registration
    \/ save_last_synced_id

SpecOT == InitOT /\ [][NextOT]_vars

\* The records fetched that share the key k, as indexes of ot_records.
Sharing(k) == {i \in 1..Len(ot_records) : unique_key(ot_records[i]) = k}

\* Of the records sharing the key k, the one with the lowest _id.
Lowest(k) ==
    ot_records[CHOOSE i \in Sharing(k) :
                  \A j \in Sharing(k) : ot_records[i].id <= ot_records[j].id]

\* The places <<request, row>> of the grouping output that hold the key k.
RowsOf(k) ==
    {qi \in (1..Len(grouped_requests)) \X (1..MaxEvents) :
        /\ qi[2] <= Len(grouped_requests[qi[1]].records)
        /\ unique_key(grouped_requests[qi[1]].records[qi[2]]) = k}

RowAt(qi) == grouped_requests[qi[1]].records[qi[2]]

\* C13: for every key shared by fetched records of which at least one has a
\* requestNo, the grouping output holds exactly one row, and it is the record
\* with the lowest _id.
C13_OneRowFromLowestId ==
    ot_pc = "sync" =>
        \A k \in KeyChoices \ {MissingField} :
            (\E i \in Sharing(k) : ot_records[i].req # "") =>
                /\ Cardinality(RowsOf(k)) = 1
                /\ \A qi \in RowsOf(k) : RowAt(qi).id = Lowest(k).id

\* What does hold for C13: exactly one row, the record with the lowest _id,
\* filed under that record's request, when that record has a requestNo; no row
\* at all for the key when it has none, whatever the later records hold.
OneRowFromLowestIdWithRequest ==
    ot_pc = "sync" =>
        \A k \in KeyChoices \ {MissingField} :
            Sharing(k) # {} =>
                IF Lowest(k).req = "" THEN RowsOf(k) = {}
                ELSE /\ Cardinality(RowsOf(k)) = 1
                     /\ \A qi \in RowsOf(k) :
                           /\ RowAt(qi) = Lowest(k)
                           /\ grouped_requests[qi[1]].request_no = Lowest(k).req

\* Three records share a key, under two requests; the output has the first.
DuplicatesAcrossRequests ==
    /\ ot_pc = "sync"
    /\ \E k \in KeyChoices \ {MissingField} :
          /\ Cardinality(Sharing(k)) = 3
          /\ {ot_records[i].req : i \in Sharing(k)} = {"R1", "R2"}
          /\ \E qi \in RowsOf(k) : RowAt(qi).id = 1

\* Of the rows of request q, those the HR system held already when the request
\* was processed, and the others; rows without a usable date are in neither.
Conflicting(q) ==
    SelectSeq(grouped_requests[q].records,
              LAMBDA r : valid_date(r) /\ detail_row(r) \in ot_results[q].conflicts)

NotConflicting(q) ==
    SelectSeq(grouped_requests[q].records,
              LAMBDA r : valid_date(r) /\ detail_row(r) \notin ot_results[q].conflicts)

\* C14: a request that is not in the HR system yet and of which some rows
\* conflict and some do not is never skipped; the registration posted holds
\* exactly the rows that do not conflict, the others are reported as skipped
\* employees; when the HR system accepts it the registration exists with them.
C14_ConflictFilterPerRow ==
    \A q \in 1..Len(ot_results) :
        (/\ ~ot_results[q].existed
         /\ Conflicting(q) # << >>
         /\ NotConflicting(q) # << >>)
        => /\ ~ot_results[q].result.skipped
           /\ ot_results[q].result.skipped_employees = Conflicting(q)
           /\ post_ok =>
                 /\ ot_results[q].result.success
                 /\ ot_results[q].result.ot_employees = NotConflicting(q)
                 /\ ot_results[q].request_no \in hr_registrations
                 /\ \A i \in 1..Len(NotConflicting(q)) :
                       detail_row(NotConflicting(q)[i]) \in hr_details

\* A request of three rows, one conflicting, was created with the two others.
C14_Witness ==
    \E q \in 1..Len(ot_results) :
        /\ Len(grouped_requests[q].records) = 3
        /\ Len(Conflicting(q)) = 1
        /\ Len(ot_results[q].result.ot_employees) = 2
        /\ ot_results[q].result.message = "Created"

\* The requests done with this message.
WithMessage(m) == {q \in 1..Len(ot_results) : ot_results[q].result.message = m}

\* C15: a request that is not in the HR system yet and of which every usable
\* row conflicts is not created; its result is a success marked skipped, "all
\* employees have existing OT", and it is counted with the skips for conflicts,
\* which the failure counter never includes.
C15_AllConflictIsSkipNotFailure ==
    /\ \A q \in 1..Len(ot_results) :
          (/\ ~ot_results[q].existed
           /\ Conflicting(q) # << >>
           /\ NotConflicting(q) = << >>)
          => /\ ot_results[q].result.success
             /\ ot_results[q].result.skipped
             /\ ot_results[q].result.message = "All employees have existing OT"
             /\ ot_results[q].result.ot_employees = << >>
             /\ ot_results[q].request_no \notin hr_registrations
    /\ ot_counts.skipped_conflicts
          = Cardinality(WithMessage("All employees have existing OT"))
    /\ ot_counts.failed
          = Cardinality({q \in 1..Len(ot_results) : ~ot_results[q].result.success})

\* The run is over: one request was skipped for conflicts, another one was
\* created, none failed.
C15_Witness ==
    /\ ot_pc = "done"
    /\ ot_counts.skipped_conflicts = 1
    /\ ot_counts.created = 1
    /\ ot_counts.failed = 0
    /\ \E q \in WithMessage("All employees have existing OT") :
          Len(ot_results[q].result.skipped_employees) = 2

\* =================================================================== SpecStore
\* The tracking file of 02.clean_data_employee_left.py as the file system holds
\* it, shared by the instances of the program that run at the same time.  A
\* file is [st, data, owner]: st is "missing", "empty" (opened for writing,
\* nothing flushed), "partial" (json.dump under way), "complete" or "corrupt";
\* owner is the instance that opened it for writing last.  Every instance
\* writes through the one path <tracking file>.tmp.  An instance makes one pass:
\* the load of get_left_employees_for_cleanup, then add_processed_employee for
\* each employee the pass handled.
max_retries == 3

\* What one read of the file gives: json.loads needs the whole text.
Parses(file) == file.st = "complete"

Unreadable(file) == file.st \in {"partial", "corrupt"}

\* Variant of load_result: whatever text the file holds is taken as the state.
load_result_unchecked(file) == file.data

\* The dict load_processed_employees returns when it returns on this file.
load_result(file) == IF Parses(file) THEN file.data ELSE EmptyState

processed_ids(data) == data.cleared \cup data.deleted

\* The employees of a pass: the Left employees not in the loaded tracking data.
pass_list(data) == SelectSeq(EmployeeList, LAMBDA e : e \notin processed_ids(data))

\* The states the file can be found in when the instances start.
InitialFiles ==
    {NoFile}
    \cup {[st |-> "complete", data |-> [cleared |-> {}, deleted |-> d], owner |-> "none"] :
             d \in {{}, {1}}}

StoreStart(running) ==
    /\ canon_file \in InitialFiles
    /\ tmp_file = NoFile
    /\ fd = [p \in Instances |-> "none"]
    /\ spc = [p \in Instances |-> IF p \in running THEN "filter_load" ELSE "end"]
    /\ todo = [p \in Instances |-> << >>]
    /\ processed_data = [p \in Instances |-> EmptyState]
    /\ attempt = [p \in Instances |-> 0]
    /\ loaded = [p \in Instances |-> EmptyState]
    /\ load_saw = [p \in Instances |-> "none"]
    /\ canon_before = [p \in Instances |-> NoFile]
    /\ alone = [p \in Instances |-> FALSE]
    /\ committed = {load_result(canon_file)}
    /\ issued = {}

BaseIdle ==
    /\ hr_up = TRUE
    /\ rel_days = [e \in Employees |-> NoDate]
    /\ profile = [d \in Devices |-> {}]
    /\ DevicesInit({})
    /\ EngineInit
    /\ tracking.cleared = {}
    /\ ClassifyIdle
    /\ MasterIdle
    /\ OTIdle

OthersIdle == BaseIdle /\ AuxIdle("none")

InitStore == OthersIdle /\ StoreStart(Instances)

\* Instance p writes, renames or removes a file: the saves of the others are
\* no longer alone.
Disturb(p) == alone' = [q \in Instances |-> q = p /\ alone[p]]

\* One attempt of load_processed_employees by instance p, for the filter of the
\* pass or inside add_processed_employee.
load_processed_employees(p) ==
    /\ spc[p] \in {"filter_load", "add_load"}
    /\ IF Unreadable(canon_file) /\ attempt[p] < max_retries - 1
       THEN /\ attempt' = [attempt EXCEPT ![p] = @ + 1]
            /\ UNCHANGED <<spc, todo, processed_data, loaded, load_saw, issued>>
       ELSE /\ attempt' = [attempt EXCEPT ![p] = 0]
            /\ loaded' = [loaded EXCEPT ![p] = load_result(canon_file)]
            /\ load_saw' = [load_saw EXCEPT ![p] = canon_file.st]
            /\ IF spc[p] = "filter_load"
               THEN /\ todo' = [todo EXCEPT ![p] = pass_list(load_result(canon_file))]
                    /\ spc' = [spc EXCEPT ![p] =
                                 IF todo'[p] = << >> THEN "end" ELSE "add_load"]
                    /\ UNCHANGED <<processed_data, issued>>
               ELSE /\ processed_data' = [processed_data EXCEPT ![p] =
                          add_processed_employee(load_result(canon_file),
                                                 Head(todo[p]), "cleared")]
                    /\ issued' = issued \cup {Head(todo[p])}
                    /\ spc' = [spc EXCEPT ![p] = "open_temp"]
                    /\ UNCHANGED todo
    /\ UNCHANGED <<canon_file, tmp_file, fd, canon_before, alone, committed>>
    /\ UNCHANGED notStore

\* Variant of open_temp: the data is written into the tracking file itself.
open_in_place(p) ==
    /\ spc[p] = "open_temp"
    /\ canon_before' = [canon_before EXCEPT ![p] = canon_file]
    /\ alone' = [q \in Instances |-> q = p]
    /\ canon_file' = [st |-> "empty", data |-> EmptyState, owner |-> p]
    /\ fd' = [fd EXCEPT ![p] = "canon"]
    /\ spc' = [spc EXCEPT ![p] = "write_temp"]
    /\ UNCHANGED <<tmp_file, todo, processed_data, attempt, loaded, load_saw,
                   committed, issued>>
    /\ UNCHANGED notStore

\* save_processed_employees, open(temp_file, 'w'): creates the file, or
\* truncates the one that has the name.
open_temp(p) ==
    /\ spc[p] = "open_temp"
    /\ canon_before' = [canon_before EXCEPT ![p] = canon_file]
    /\ alone' = [q \in Instances |-> q = p]
    /\ tmp_file' = [st |-> "empty", data |-> EmptyState, owner |-> p]
    /\ fd' = [fd EXCEPT ![p] = "tmp"]
    /\ spc' = [spc EXCEPT ![p] = "write_temp"]
    /\ UNCHANGED <<canon_file, todo, processed_data, attempt, loaded, load_saw,
                   committed, issued>>
    /\ UNCHANGED notStore

\* The file a write of instance p lands in, by the name the file has now.
WriteThrough(p, content) ==
    /\ canon_file' = IF fd[p] = "canon" THEN content ELSE canon_file
    /\ tmp_file' = IF fd[p] = "tmp" THEN content ELSE tmp_file

Target(p) ==
    IF fd[p] = "canon" THEN canon_file
    ELSE IF fd[p] = "tmp" THEN tmp_file
    ELSE NoFile

\* save_processed_employees, json.dump: the first part of the text reaches the
\* file.  Where another instance opened or wrote the same file in between, the
\* text that results is either the start of the writer's or damaged.
write_temp(p) ==
    /\ spc[p] = "write_temp"
    /\ LET f == Target(p) IN
         IF f.st = "empty" /\ f.owner = p
         THEN WriteThrough(p, [f EXCEPT !.st = "partial", !.data = processed_data[p]])
         ELSE \E st \in {"corrupt", "partial"} :
                 WriteThrough(p, [st |-> st, data |-> processed_data[p],
                                  owner |-> f.owner])
    /\ spc' = [spc EXCEPT ![p] = "close_temp"]
    /\ Disturb(p)
    /\ UNCHANGED <<fd, todo, processed_data, attempt, loaded, load_saw,
                   canon_before, committed, issued>>
    /\ UNCHANGED notStore

\* save_processed_employees, the end of the with block: the rest of the text
\* reaches the file.  Where another instance opened or wrote the same file in
\* between, the text that results is either the writer's or damaged.
close_temp(p) ==
    /\ spc[p] = "close_temp"
    /\ LET f == Target(p) IN
         IF f.st = "partial" /\ f.owner = p
         THEN WriteThrough(p, [f EXCEPT !.st = "complete"])
         ELSE \E st \in {"corrupt", "complete"} :
                 WriteThrough(p, [st |-> st, data |-> processed_data[p],
                                  owner |-> f.owner])
    /\ fd' = [fd EXCEPT ![p] = "none"]
    /\ spc' = [spc EXCEPT ![p] = "replace"]
    /\ Disturb(p)
    /\ UNCHANGED <<todo, processed_data, attempt, loaded, load_saw,
                   canon_before, committed, issued>>
    /\ UNCHANGED notStore

\* Where instance p goes after a save: the next employee of its pass.
AfterSave(p) ==
    /\ todo' = [todo EXCEPT ![p] = Tail(@)]
    /\ spc' = [spc EXCEPT ![p] = IF Tail(todo[p]) = << >> THEN "end" ELSE "add_load"]

\* save_processed_employees, os.replace(temp_file, processed_file): the file
\* named .tmp takes the tracking file's name; with no file of that name the
\* call raises and the except branch runs.
replace(p) ==
    /\ spc[p] = "replace"
    /\ IF tmp_file.st = "missing"
       THEN /\ spc' = [spc EXCEPT ![p] = "cleanup"]
            /\ UNCHANGED <<canon_file, tmp_file, fd, todo, committed, alone>>
       ELSE /\ canon_file' = tmp_file
            /\ tmp_file' = NoFile
            /\ fd' = [q \in Instances |->
                        IF fd[q] = "tmp" THEN "canon"
                        ELSE IF fd[q] = "canon" THEN "gone" ELSE fd[q]]
            /\ committed' = committed \cup {processed_data[p]}
            /\ Disturb(p)
            /\ AfterSave(p)
    /\ UNCHANGED <<processed_data, attempt, loaded, load_saw, canon_before, issued>>
    /\ UNCHANGED notStore

\* save_processed_employees, the except branch: a file named .tmp is removed.
cleanup(p) ==
    /\ spc[p] = "cleanup"
    /\ tmp_file' = NoFile
    /\ fd' = [q \in Instances |-> IF fd[q] = "tmp" THEN "gone" ELSE fd[q]]
    /\ Disturb(p)
    /\ AfterSave(p)
    /\ UNCHANGED <<canon_file, processed_data, attempt, loaded, load_saw,
                   canon_before, committed, issued>>
    /\ UNCHANGED notStore

\* The process of instance p dies inside a save, before its os.replace.
crash(p) ==
    /\ spc[p] \in {"write_temp", "close_temp", "replace"}
    /\ spc' = [spc EXCEPT ![p] = "crashed"]
    /\ fd' = [fd EXCEPT ![p] = "none"]
    /\ UNCHANGED <<canon_file, tmp_file, todo, processed_data, attempt, loaded,
                   load_saw, canon_before, alone, committed, issued>>
    /\ UNCHANGED notStore

NextStore ==
    \E p \in Instances :
        \/ load_processed_employees(p)
        \/ open_temp(p)
        \/ write_temp(p)
        \/ close_temp(p)
        \/ replace(p)
        \/ cleanup(p)
        \/ crash(p)

SpecStore == InitStore /\ [][NextStore]_vars

\* ---------------------------------------------------------------------- C16
\* C16: an instance that crashes inside a save after it opened the temporary
\* file and before its rename, with no other instance writing in the
\* meantime, leaves the tracking file exactly as it was when the save began.
C16_CrashBeforeRenameLeavesFile ==
    \A p \in Instances :
        spc[p] = "crashed" /\ alone[p] => canon_file = canon_before[p]

\* An instance crashed with its temporary file written in full, and the
\* tracking file it was about to replace holds a complete earlier state.
C16_Witness ==
    \E p \in Instances :
        /\ spc[p] = "crashed"
        /\ alone[p]
        /\ tmp_file.st = "complete"
        /\ tmp_file.owner = p
        /\ tmp_file.data # canon_file.data
        /\ canon_file.st = "complete"

\* ---------------------------------------------------------------------- C17
\* C17: every load of the tracking file ends on a file that is whole (or on no
\* file at all) and returns a state the file was given by a save, or the state
\* it held at the start: never the text of a file still being written.
C17_ReaderSeesCompleteState ==
    \A p \in Instances :
        load_saw[p] # "none" =>
            /\ load_saw[p] \in {"missing", "complete"}
            /\ loaded[p] \in committed

\* ---------------------------------------------------------------------- C18
\* No call of add_processed_employee is under way.
NoWriteInFlight ==
    \A p \in Instances : spc[p] \in {"filter_load", "add_load", "end"} /\ attempt[p] = 0

\* C18: whenever no call of add_processed_employee is under way and the
\* tracking file is whole, it holds what the calls made so far give in any
\* order one after the other: every employee a call was made for, and every
\* record a state written or found earlier held.
C18_WritesAsInSomeOrder ==
    NoWriteInFlight /\ canon_file.st = "complete" =>
        /\ issued \subseteq canon_file.data.cleared
        /\ \A c \in committed :
              /\ c.cleared \subseteq canon_file.data.cleared
              /\ c.deleted \subseteq canon_file.data.deleted

\* ---------------------------------------------------------------------- C19
\* C19: a load that ends on a tracking file that is missing, empty or not
\* parseable returns the empty state; no load makes more than max_retries
\* attempts, and no load takes the instance anywhere but on with its pass.
C19_UnreadableFileIsEmptyState ==
    \A p \in Instances :
        /\ load_saw[p] \in {"missing", "empty", "partial", "corrupt"} =>
              loaded[p] = EmptyState
        /\ attempt[p] < max_retries
        /\ spc[p] \in {"filter_load", "add_load", "open_temp", "write_temp",
                       "close_temp", "replace", "cleanup", "end", "crashed"}

\* A load has returned the empty state from a file that was being written,
\* while states with records had been saved.
C19_Witness ==
    \E p \in Instances :
        /\ load_saw[p] \in {"partial", "corrupt"}
        /\ loaded[p] = EmptyState
        /\ \E c \in committed : c # EmptyState

FoundAbsent(e, d) ==
    /\ Answers(d)
    /\ e \notin users[d]
    /\ <<e, d>> \notin mutated

\* C21: a terminal that answers and holds no user for the employee returns a
\* successful result with nothing counted as cleared or deleted; the employee
\* is then recorded, and one who is due for a clear is recorded as cleared.
C21_AbsentUserIsImplicitSuccess ==
    /\ pc = "record" =>
          \A d \in Devices : FoundAbsent(Emp, d) =>
              /\ device_results[d].success
              /\ device_results[d].cleared_count = 0
              /\ device_results[d].deleted_count = 0
              /\ recorded_action(device_results) # "None"
    /\ \A e \in Passed : \A d \in Devices :
          /\ FoundAbsent(e, d)
          /\ classify(rel_days[e], DELAY_DAYS, DELETE_AFTER_DAYS) = "ClearTemplates"
          => e \in tracking.cleared

\* A pass is over in which a terminal held no user for an employee due for a
\* clear, and the employee is in the cleared map.
C21_Witness ==
    /\ pc = "idle"
    /\ \E e \in Passed : \E d \in Devices :
          /\ FoundAbsent(e, d)
          /\ e \notin processed_at_start
          /\ classify(rel_days[e], DELAY_DAYS, DELETE_AFTER_DAYS) = "ClearTemplates"
          /\ e \in tracking.cleared

\* ================================================================ SpecRecreate
\* The clear of one user on one terminal, with the fields of the user record:
\* delete_user, then set_user, as clear_employee_templates_from_device (the
\* engine) and clean_users_on_device (the cleaner) issue them.  A name is a
\* sequence of words, a word a sequence of characters; a record is
\* [user_id, name, privilege, templates], templates the number of non-empty
\* template slots.
Rep(c, n) == [i \in 1..n |-> c]

\* unidecode on a character.
unidecode(c) == IF c = "â" THEN "a" ELSE c

\* str.upper on a character.
upper(c) ==
    IF c = "a" THEN "A" ELSE IF c = "n" THEN "N" ELSE IF c = "v" THEN "V" ELSE c

RECURSIVE text_length(_)
\* len() of the words joined by single spaces.
text_length(parts) ==
    IF parts = << >> THEN 0
    ELSE Len(Head(parts)) + (IF Len(parts) > 1 THEN 1 ELSE 0) + text_length(Tail(parts))

\* shorten_name(full_name, max_length).
shorten_name(full_name, max_length) ==
    IF full_name = << >> THEN full_name
    ELSE LET parts == [i \in 1..Len(full_name) |->
                          [j \in 1..Len(full_name[i]) |-> unidecode(full_name[i][j])]]
         IN  IF text_length(parts) > max_length
             THEN IF Len(parts) > 1
                  THEN << [i \in 1..(Len(parts) - 1) |-> upper(parts[i][1])],
                          parts[Len(parts)] >>
                  ELSE << SubSeq(parts[1], 1, max_length) >>
             ELSE parts

NameChoices ==
    { <<Rep("a", 3)>>,
      <<Rep("â", 3)>>,
      <<Rep("n", 12), Rep("v", 12), Rep("a", 3)>>,
      <<<<"N", "V">>, Rep("a", 3)>>,
      <<Rep("v", 30)>> }

\* The state after get_users found the user on the terminal.
InitRecreate ==
    /\ rc_backup \in [user_id : {"123"}, name : NameChoices, privilege : {0, 14},
                      templates : 0..2]
    /\ rc_user = rc_backup
    /\ rc_employee_name \in NameChoices
    /\ rc_routine \in {"engine", "cleaner"}
    /\ rc_pc = "delete_user"
    /\ BaseIdle
    /\ StoreIdle
    /\ AuxIdle("recreate")

\* conn.delete_user(user_id=...): the user goes with its templates.
clear_delete_user ==
    /\ rc_pc = "delete_user"
    /\ rc_user' = << >>
    /\ rc_pc' = "set_user"
    /\ UNCHANGED <<rc_backup, rc_employee_name, rc_routine>>
    /\ UNCHANGED notRecreate

\* The engine: conn.set_user(uid=user.uid, name=employee_name,
\* privilege=user.privilege, ..., user_id=attendance_device_id), employee_name
\* being shorten_name(employee_data["employee_name"], 24).
\* The cleaner: conn.set_user(name=backup_name, privilege=backup_privilege,
\* user_id=backup_user_id).
clear_set_user ==
    /\ rc_pc = "set_user"
    /\ rc_user' = [user_id |-> rc_backup.user_id,
                   name |-> IF rc_routine = "engine"
                            THEN shorten_name(rc_employee_name, 24)
                            ELSE rc_backup.name,
                   privilege |-> rc_backup.privilege,
                   templates |-> 0]
    /\ rc_pc' = "done"
    /\ UNCHANGED <<rc_backup, rc_employee_name, rc_routine>>
    /\ UNCHANGED notRecreate

NextRecreate == clear_delete_user \/ clear_set_user

SpecRecreate == InitRecreate /\ [][NextRecreate]_vars

\* ---------------------------------------------------------------------- C22
\* C22: once the clear of a user is done, the terminal holds a user with the
\* device_user_id, the name and the privilege it held before, and with no
\* non-empty template slot.
C22_RecreatedUserIdentical ==
    rc_pc = "done" /\ rc_backup # << >> =>
        /\ rc_user # << >>
        /\ rc_user.user_id = rc_backup.user_id
        /\ rc_user.name = rc_backup.name
        /\ rc_user.privilege = rc_backup.privilege
        /\ rc_user.templates = 0

\* The same without the name.
RecreatedUserIdenticalButName ==
    rc_pc = "done" /\ rc_backup # << >> =>
        /\ rc_user # << >>
        /\ rc_user.user_id = rc_backup.user_id
        /\ rc_user.privilege = rc_backup.privilege
        /\ rc_user.templates = 0

\* ================================================================== SpecBypass
\* The time windows of local_config.py in which a class of operation is
\* skipped.  A time "HH:MM" is <<hour, minute>>, as strptime(...).time() gives.
Clock == (0..MaxHour) \X {0, 30}

Window == [start : Clock, end : Clock]

\* datetime.time comparison: by hour, then by minute.
time_le(a, b) == a[1] < b[1] \/ (a[1] = b[1] /\ a[2] <= b[2])

\* Variant of period_matches: no window is taken as crossing midnight.
period_matches_same_day(now, period) ==
    time_le(period.start, now) /\ time_le(now, period.end)

\* The test is_in_bypass_period makes on one period.
period_matches(now, period) ==
    IF time_le(period.start, period.end)
    THEN time_le(period.start, now) /\ time_le(now, period.end)
    ELSE time_le(period.start, now) \/ time_le(now, period.end)

NoPeriod == [start |-> <<0, 0>>, end |-> <<0, 0>>, reason |-> "None"]

RECURSIVE is_in_bypass_period(_, _)
\* is_in_bypass_period: <<True, period>> for the first period that matches,
\* <<False, None>> when none does.
is_in_bypass_period(now, periods) ==
    IF periods = << >> THEN <<FALSE, NoPeriod>>
    ELSE IF period_matches(now, Head(periods)) THEN <<TRUE, Head(periods)>>
    ELSE is_in_bypass_period(now, Tail(periods))

InitBypass ==
    /\ \E n \in 0..MaxWindows : \E w \in [1..n -> Window] :
          bypass_periods = [i \in 1..n |->
              [start |-> w[i].start, end |-> w[i].end, reason |-> <<"reason", i>>]]
    /\ current_time \in Clock
    /\ bypass_status = [done |-> FALSE, bypassed |-> FALSE, reason |-> "None"]
    /\ BaseIdle
    /\ StoreIdle
    /\ AuxIdle("bypass")

\* get_bypass_status for one class of operation.
get_bypass_status ==
    /\ ~bypass_status.done
    /\ LET r == is_in_bypass_period(current_time, bypass_periods)
       IN  bypass_status' = [done |-> TRUE, bypassed |-> r[1],
                             reason |-> IF r[1] THEN r[2].reason ELSE "None"]
    /\ UNCHANGED <<bypass_periods, current_time>>
    /\ UNCHANGED notBypass

NextBypass == get_bypass_status

SpecBypass == InitBypass /\ [][NextBypass]_vars

\* ---------------------------------------------------------------------- C23
\* Minutes since midnight.
MinuteOfDay(t) == t[1] * 60 + t[2]

\* The time lies inside the window; a window with start > end crosses
\* midnight.
Inside(t, w) ==
    IF MinuteOfDay(w.start) <= MinuteOfDay(w.end)
    THEN MinuteOfDay(w.start) <= MinuteOfDay(t) /\ MinuteOfDay(t) <= MinuteOfDay(w.end)
    ELSE MinuteOfDay(t) >= MinuteOfDay(w.start) \/ MinuteOfDay(t) <= MinuteOfDay(w.end)

\* C23: the bypass decision is skip exactly when the current time lies inside
\* at least one window, and then the reason is that of a window the time lies
\* inside; otherwise there is no reason.
C23_BypassExactlyInsideWindow ==
    bypass_status.done =>
        /\ bypass_status.bypassed <=>
              \E i \in 1..Len(bypass_periods) : Inside(current_time, bypass_periods[i])
        /\ bypass_status.bypassed =>
              \E i \in 1..Len(bypass_periods) :
                  /\ Inside(current_time, bypass_periods[i])
                  /\ bypass_status.reason = bypass_periods[i].reason
        /\ ~bypass_status.bypassed => bypass_status.reason = "None"

\* The decision is skip, on a second window that crosses midnight, the first
\* window not holding the time.
C23_Witness ==
    /\ bypass_status.done
    /\ bypass_status.bypassed
    /\ Len(bypass_periods) = 2
    /\ ~Inside(current_time, bypass_periods[1])
    /\ MinuteOfDay(bypass_periods[2].start) > MinuteOfDay(bypass_periods[2].end)
    /\ bypass_status.reason = bypass_periods[2].reason

\* ================================================================= SpecService
\* The main loop of ERPNextSyncService (erpnext_sync_all.py): execute_cycle,
\* then a sleep of PULL_FREQUENCY minutes in steps that watch self.running.
\* Time is counted in minutes; a cycle takes up to MaxDuration of them.
InitService ==
    /\ svc_pc = "loop"
    /\ svc_running = TRUE
    /\ cycle_count = 0
    /\ in_flight = 0
    /\ svc_minutes = 0
    /\ last_duration = 0
    /\ BaseIdle
    /\ StoreIdle
    /\ AuxIdle("service")

\* Variant of may_start_cycle: a cycle is also started when the interval has
\* passed since the last start, whatever is under way.
may_start_cycle_on_timer ==
    svc_running /\ (svc_pc = "loop" \/ (svc_pc = "cycle" /\ svc_minutes >= PULL_FREQUENCY))

\* `while self.running:` at the top of the loop body.
may_start_cycle == svc_running /\ svc_pc = "loop"

\* run calls execute_cycle.
execute_cycle ==
    /\ may_start_cycle
    /\ cycle_count < MaxCycles
    /\ cycle_count' = cycle_count + 1
    /\ in_flight' = in_flight + 1
    /\ svc_minutes' = 0
    /\ svc_pc' = "cycle"
    /\ UNCHANGED <<svc_running, last_duration>>
    /\ UNCHANGED notService

\* A minute passes inside execute_cycle.
cycle_minute ==
    /\ svc_pc = "cycle"
    /\ svc_minutes < MaxDuration
    /\ svc_minutes' = svc_minutes + 1
    /\ UNCHANGED <<svc_pc, svc_running, cycle_count, in_flight, last_duration>>
    /\ UNCHANGED notService

\* execute_cycle returns: `if not self.running: break`, else the sleep.
cycle_returns ==
    /\ svc_pc = "cycle"
    /\ in_flight' = in_flight - 1
    /\ last_duration' = svc_minutes
    /\ svc_minutes' = 0
    /\ svc_pc' = IF svc_running THEN "sleep" ELSE "shutdown"
    /\ UNCHANGED <<svc_running, cycle_count>>
    /\ UNCHANGED notService

\* execute_cycle raises: the except branch sleeps 15 seconds and the loop
\* goes round.
cycle_raises ==
    /\ svc_pc = "cycle"
    /\ in_flight' = in_flight - 1
    /\ last_duration' = svc_minutes
    /\ svc_minutes' = 0
    /\ svc_pc' = "loop"
    /\ UNCHANGED <<svc_running, cycle_count>>
    /\ UNCHANGED notService

\* The sleep: one more minute, or its end when PULL_FREQUENCY minutes have
\* passed or self.running is off.
sleep_minute ==
    /\ svc_pc = "sleep"
    /\ IF svc_minutes < PULL_FREQUENCY /\ svc_running
       THEN /\ svc_minutes' = svc_minutes + 1
            /\ UNCHANGED svc_pc
       ELSE /\ svc_minutes' = 0
            /\ svc_pc' = "loop"
    /\ UNCHANGED <<svc_running, cycle_count, in_flight, last_duration>>
    /\ UNCHANGED notService

\* SIGTERM or SIGINT.
signal_handler ==
    /\ svc_running
    /\ svc_pc # "shutdown"
    /\ svc_running' = FALSE
    /\ UNCHANGED <<svc_pc, cycle_count, in_flight, svc_minutes, last_duration>>
    /\ UNCHANGED notService

\* The loop condition fails: self.shutdown().
shutdown ==
    /\ svc_pc = "loop"
    /\ ~svc_running
    /\ svc_pc' = "shutdown"
    /\ UNCHANGED <<svc_running, cycle_count, in_flight, svc_minutes, last_duration>>
    /\ UNCHANGED notService

NextService ==
    \/ execute_cycle
    \/ cycle_minute
    \/ cycle_returns
    \/ cycle_raises
    \/ sleep_minute
    \/ signal_handler
    \/ shutdown

SpecService == InitService /\ [][NextService]_vars

\* ---------------------------------------------------------------------- C24
\* C24: at most one fleet cycle of the service is under way at any time, and a
\* cycle is under way only while the loop is inside execute_cycle: a cycle that
\* lasts longer than the polling interval is not joined by the next one.
C24_NoTwoCyclesAtOnce ==
    /\ in_flight <= 1
    /\ in_flight = 1 <=> svc_pc = "cycle"

\* A cycle that took longer than the polling interval is over and the next
\* cycle is under way.
C24_Witness ==
    /\ last_duration > PULL_FREQUENCY
    /\ cycle_count >= 2
    /\ in_flight = 1

\* ==================================================================== SpecMain
\* main() of 02.clean_data_employee_left.py, the cleanup command.  The user
\* gives --dry-run and --manual and, in manual mode, answers the two prompts
\* (<< >> when prompt_integer returns None).  The run meets an HR system that
\* answers the connection test or not, possibly an exception, and for each
\* employee of the list the "success" of clean_left_employee_complete.
InitMain ==
    /\ main_pc = "start"
    /\ main_args \in [dry_run : BOOLEAN, manual : BOOLEAN,
                      delay : {<< >>, <<0>>}, delete_after : {<< >>, <<0>>}]
    /\ main_env \in [hr : BOOLEAN, raises : BOOLEAN,
                     results : UNION {[1..n -> BOOLEAN] : n \in 0..NumEmployees}]
    /\ main_config = OriginalConfig
    /\ exit_code = 0 - 1
    /\ BaseIdle
    /\ StoreIdle
    /\ AuxIdle("main")

\* "success" of the dict run_cleanup returns.
run_cleanup_success(hr, results) ==
    IF ~hr THEN FALSE
    ELSE IF results = << >> THEN TRUE
    ELSE \E i \in 1..Len(results) : results[i]

\* `if args.manual:` the answers to the prompts replace the values of
\* local_config.
main_manual ==
    /\ main_pc = "start"
    /\ main_config' =
          IF main_args.manual
          THEN [delay |-> IF main_args.delay = << >> THEN main_config.delay
                          ELSE main_args.delay[1],
                delete_after |-> IF main_args.delete_after = << >>
                                 THEN main_config.delete_after
                                 ELSE main_args.delete_after[1]]
          ELSE main_config
    /\ main_pc' = "mode"
    /\ UNCHANGED <<main_args, main_env, exit_code>>
    /\ UNCHANGED notMain

\* `if args.dry_run:` the connection test, the list or the error message,
\* then `return`.
main_dry_run ==
    /\ main_pc = "mode"
    /\ main_args.dry_run
    /\ exit_code' = IF main_env.raises THEN 1 ELSE 0
    /\ main_pc' = "finally"
    /\ UNCHANGED <<main_args, main_env, main_config>>
    /\ UNCHANGED notMain

\* cleaner.run_cleanup(), then exit(0) or exit(1); an exception is logged and
\* raised again.
main_run_cleanup ==
    /\ main_pc = "mode"
    /\ ~main_args.dry_run
    /\ exit_code' = IF main_env.raises THEN 1
                    ELSE IF run_cleanup_success(main_env.hr, main_env.results) THEN 0
                    ELSE 1
    /\ main_pc' = "finally"
    /\ UNCHANGED <<main_args, main_env, main_config>>
    /\ UNCHANGED notMain

\* finally: the two values of local_config are set back.
main_finally ==
    /\ main_pc = "finally"
    /\ main_config' = OriginalConfig
    /\ main_pc' = "exited"
    /\ UNCHANGED <<main_args, main_env, exit_code>>
    /\ UNCHANGED notMain

NextMain == main_manual \/ main_dry_run \/ main_run_cleanup \/ main_finally

SpecMain == InitMain /\ [][NextMain]_vars

\* ---------------------------------------------------------------------- C25
\* C25: a run of the cleanup command that meets no exception exits with a
\* non-zero code when the HR connection test fails, and with code 0 when the
\* HR system answers and some employee was cleaned.
C25_ExitCodeTellsHrFailure ==
    main_pc = "exited" /\ ~main_env.raises =>
        /\ ~main_env.hr => exit_code # 0
        /\ (main_env.hr /\ \E i \in 1..Len(main_env.results) : main_env.results[i])
              => exit_code = 0

\* ------------------------------------------------- SpecIngest: attendance
\* The submission of the attendance events to the HR system, by the parallel
\* script 04.sync_log_from_mongodb_to_erpnext.py and by the sequential
\* sync_log_from_mongodb_to_erpnext.py the service imports.

\* The texts the two scripts look for in the answer of the checkin endpoint.
NoEmployeeText == "No Employee found for the given employee field value"
DuplicateText == "This employee already has a log with the same timestamp"

\* send_to_erpnext returns <<status_code, message>>; a message is modelled by
\* the set of the texts above it holds (none for a timeout, a 403, a 500).
Answers200 == {[status_code |-> 200, message |-> {}]}
AnswersFailed == {[status_code |-> c, message |-> m] :
                    c \in {417, 500}, m \in {{}, {NoEmployeeText}, {DuplicateText}}}
\* An event: finger is "" when attFingerId or timestamp is missing, "ignored"
\* when the id is in user_id_inorged, "plain" otherwise.
AttRecords == [finger : {"", "ignored", "plain"}, answer : Answers200 \cup AnswersFailed]

\* `"already has a log" in str(response).lower()`: the lowered duplicate text
\* holds the lowered needle, the other texts do not.
has_already_has_a_log(message) == DuplicateText \in message

\* process_record of 04: ('processed' | 'skipped' | 'error').
process_record_outcome(record) ==
    IF record.finger \in {"", "ignored"} THEN "skipped"
    ELSE IF record.answer.status_code = 200 THEN "processed"
    ELSE IF has_already_has_a_log(record.answer.message) THEN "skipped"
    ELSE "error"

\* The body of the loop of sync_attendance_data of the sequential script.
sync_attendance_outcome(record) ==
    IF record.finger = "" THEN "skipped"
    ELSE IF record.answer.status_code = 200 THEN "processed"
    ELSE IF NoEmployeeText \in record.answer.message THEN "skipped"
    ELSE IF DuplicateText \in record.answer.message THEN "skipped"
    ELSE "error"

InitIngest ==
    /\ att_script \in {"04", "sync_log"}
    /\ att_records \in UNION {[1..n -> AttRecords] : n \in 0..MaxRecords}
    /\ att_outcome = [i \in DOMAIN att_records |-> ""]
    /\ total_processed = 0
    /\ total_skipped = 0
    /\ total_errors = 0
    /\ att_pc = "records"
    /\ BaseIdle /\ StoreIdle /\ AuxIdle("ingest")

\* The counting of one outcome by the loop that collects them.
count_outcome(i, status) ==
    /\ att_outcome' = [att_outcome EXCEPT ![i] = status]
    /\ total_processed' = total_processed + (IF status = "processed" THEN 1 ELSE 0)
    /\ total_skipped' = total_skipped + (IF status = "skipped" THEN 1 ELSE 0)
    /\ total_errors' = total_errors + (IF status = "error" THEN 1 ELSE 0)

\* 04: the futures complete in any order; each result is counted once.
process_record ==
    /\ att_pc = "records"
    /\ att_script = "04"
    /\ \E i \in DOMAIN att_records :
        /\ att_outcome[i] = ""
        /\ count_outcome(i, process_record_outcome(att_records[i]))
    /\ UNCHANGED <<att_script, att_records, att_pc, notIngest>>

\* sync_log: the events are submitted one after the other.
sync_attendance_record ==
    /\ att_pc = "records"
    /\ att_script = "sync_log"
    /\ \E i \in DOMAIN att_records :
        /\ att_outcome[i] = ""
        /\ \A j \in 1..(i - 1) : att_outcome[j] # ""
        /\ count_outcome(i, sync_attendance_outcome(att_records[i]))
    /\ UNCHANGED <<att_script, att_records, att_pc, notIngest>>

\* Both scripts: the totals are returned once every event has its outcome.
sync_attendance_return ==
    /\ att_pc = "records"
    /\ \A i \in DOMAIN att_records : att_outcome[i] # ""
    /\ att_pc' = "done"
    /\ UNCHANGED <<att_script, att_records, att_outcome, total_processed,
                   total_skipped, total_errors, notIngest>>

NextIngest == process_record \/ sync_attendance_record \/ sync_attendance_return

SpecIngest == InitIngest /\ [][NextIngest]_vars

\* C26: an event HR refuses as a duplicate or for an unknown employee is
\* counted as skipped and not as an error: once the totals are returned, the
\* errors are exactly the submitted events refused for another reason.
C26_ConflictsAreSkipsNotErrors ==
    att_pc = "done" =>
        /\ \A i \in DOMAIN att_records :
            (att_records[i].finger = "plain"
             /\ att_records[i].answer.status_code # 200
             /\ att_records[i].answer.message # {}) => att_outcome[i] = "skipped"
        /\ total_errors = Cardinality({i \in DOMAIN att_records :
                                          att_outcome[i] = "error"})

\* ---------------------------------------------------- C27: HR unreachable
\* C27: when the HR connection test fails at the start of a cleanup cycle the
\* cycle ends at once: no terminal is approached, no session is opened and the
\* tracking file is what it was when the cycle began.
C27_HrDownAbortsCycle ==
    (~hr_up /\ cycle > 0) =>
        /\ pc = "idle"
        /\ left_employees = << >>
        /\ touched = {}
        /\ \A d \in Devices : sessions[d] = 0
        /\ \A e \in Employees : writes[e] = 0
        /\ tracking.cleared \cup tracking.deleted = processed_at_start

\* A cycle was started with HR unreachable while an employee was due.
C27_Witness ==
    /\ ~hr_up
    /\ cycle > 0
    /\ get_left_employees_for_cleanup(rel_days, processed_at_start) # << >>

\* ------------------------------------------- C28: no usable relieving date
\* C28: an employee whose relieving date is missing or does not parse is
\* classified NoAction, is not in the list the cycle works through, and no
\* terminal is approached or changed for them; no record is written for them.
C28_NoDateIsNoAction ==
    \A e \in Employees :
        ~HasDate(rel_days[e]) =>
            /\ classify(rel_days[e], DELAY_DAYS, DELETE_AFTER_DAYS) = "NoAction"
            /\ \A i \in DOMAIN left_employees : left_employees[i] # e
            /\ writes[e] = 0
            /\ \A d \in Devices :
                  /\ <<e, d>> \notin touched
                  /\ <<e, d>> \notin mutated
                  /\ users[d] = {} \/ (e \in users[d] /\ e \in templates[d])

\* A cycle changed a terminal for one employee while another, enrolled on the
\* first terminal, had no relieving date or one that does not parse.
C28_Witness ==
    /\ hr_up
    /\ mutated # {}
    /\ \E e \in Employees : rel_days[e] \in {Unparseable, NoDate} /\ e \in users[1]

\* ------------------------------------------------ C29: the clear boundary
\* What is done for the employee: the action of the filter when the HR client
\* delivered the employee, nothing otherwise.
action_taken == IF cout.ready THEN cout.action ELSE "NoAction"

\* C29: an employee with a relieving date to whom the purge does not apply is
\* given ClearTemplates exactly when today - relieving_date >= delay_days, the
\* boundary included, and NoAction when it is smaller.
C29_ClearExactlyFromDelay ==
    (/\ cout.done
     /\ HasDate(cin.rel)
     /\ ~should_permanently_delete(DaysSince(cin.rel), cin.delete_after_days)) =>
        action_taken = IF DaysSince(cin.rel) >= cin.delay_days THEN "ClearTemplates"
                       ELSE "NoAction"

\* ------------------------------------------------ SpecCursor: the OT cursor
\* sync_ot_to_erpnext of 05.sync_ot_from_mongodb_to_erpnext.py over several
\* cycles: each cycle fetches the records with an _id above the one in the
\* cursor file, tries to create each request once, and saves the highest _id
\* fetched.  Every record is a request of its own here; the grouping and the
\* deduplication are those of SpecOT.
InitCursor ==
    /\ ot_inserted \in 0..1
    /\ last_id_file = 0
    /\ cur_records = << >>
    /\ cur_done = 0
    /\ hr_created = {}
    /\ attempted_in = [id \in 1..MaxEvents |-> {}]
    /\ failed_in = [id \in 1..MaxEvents |-> {}]
    /\ fetch_failed = {}
    /\ ot_cycle = 0
    /\ cursor_pc = "idle"
    /\ BaseIdle /\ StoreIdle /\ AuxIdle("cursor")

\* A new OT record is written to MongoDB, with the next _id.
insert_ot_record ==
    /\ ot_inserted < MaxEvents
    /\ ot_inserted' = ot_inserted + 1
    /\ UNCHANGED <<last_id_file, cur_records, cur_done, hr_created, attempted_in,
                   failed_in, fetch_failed, ot_cycle, cursor_pc, notCursor>>

\* fetch_ot_records_from_mongodb: `_id > last_id`, sorted by _id.
records_after(last_id) ==
    [i \in 1..(IF ot_inserted > last_id THEN ot_inserted - last_id ELSE 0) |->
        last_id + i]

\* The start of sync_ot_to_erpnext: the fetch, which returns [] when it raises,
\* and the early return on no record.
fetch_ot_records_from_mongodb ==
    /\ cursor_pc = "idle"
    /\ ot_cycle < MaxCycles
    /\ ot_cycle' = ot_cycle + 1
    /\ \E raises \in BOOLEAN :
        /\ cur_records' = IF raises THEN << >> ELSE records_after(last_id_file)
        /\ fetch_failed' = IF raises THEN fetch_failed \cup {ot_cycle'} ELSE fetch_failed
    /\ cur_done' = 0
    /\ cursor_pc' = IF cur_records' = << >> THEN "idle" ELSE "sync"
    /\ UNCHANGED <<ot_inserted, last_id_file, hr_created, attempted_in, failed_in,
                   notCursor>>

\* One turn of the loop of sync_ot_to_erpnext: HR does not answer and the
\* request is counted failed, or the registration exists, or it is created.
create_request ==
    /\ cursor_pc = "sync"
    /\ cur_done < Len(cur_records)
    /\ LET id == cur_records[cur_done + 1]
       IN  /\ attempted_in' = [attempted_in EXCEPT ![id] = @ \cup {ot_cycle}]
           /\ \E reachable \in BOOLEAN :
                IF reachable
                THEN /\ hr_created' = hr_created \cup {id}
                     /\ UNCHANGED failed_in
                ELSE /\ failed_in' = [failed_in EXCEPT ![id] = @ \cup {ot_cycle}]
                     /\ UNCHANGED hr_created
    /\ cur_done' = cur_done + 1
    /\ UNCHANGED <<ot_inserted, last_id_file, cur_records, fetch_failed, ot_cycle,
                   cursor_pc, notCursor>>

\* After the loop: save_last_synced_id(max _id of records), which logs and
\* goes on when the file cannot be written.
save_cursor ==
    /\ cursor_pc = "sync"
    /\ cur_done = Len(cur_records)
    /\ \E written \in BOOLEAN :
        last_id_file' = IF written THEN cur_records[Len(cur_records)] ELSE last_id_file
    /\ cursor_pc' = "idle"
    /\ UNCHANGED <<ot_inserted, cur_records, cur_done, hr_created, attempted_in,
                   failed_in, fetch_failed, ot_cycle, notCursor>>

NextCursor ==
    \/ insert_ot_record
    \/ fetch_ot_records_from_mongodb
    \/ create_request
    \/ save_cursor

SpecCursor == InitCursor /\ [][NextCursor]_vars

\* The cycle c is over.
CycleOver(c) == ot_cycle > c \/ (ot_cycle = c /\ cursor_pc = "idle")

\* C30: an OT request whose creation failed in one cycle because HR did not
\* answer is tried again by the next cycle, unless that cycle could not fetch.
C30_FailedRequestTriedNextCycle ==
    \A id \in 1..MaxEvents :
        \A c \in failed_in[id] :
            (CycleOver(c + 1) /\ c + 1 \notin fetch_failed) => c + 1 \in attempted_in[id]

\* -------------------------------------------- SpecRecord: one OT record
\* One OT record of 05.sync_ot_from_mongodb_to_erpnext.py from the fetch to
\* the document create_ot_registration posts, field by field.

\* The day datetime.now() falls on, and a day the records carry.
Today == "now"
RecordDay == "2024-01-05"

\* A date field: a datetime, a {'$date': ...} dict, a text in another form,
\* or no value.
DateFields ==
    {[kind |-> "datetime", day |-> RecordDay], [kind |-> "$date", day |-> RecordDay],
     [kind |-> "text", day |-> RecordDay], [kind |-> "none", day |-> ""]}

\* A time field: << >> when absent, <<h, m>> for HH:MM, <<h, m, s>> for HH:MM:SS.
TimeFields == {<< >>, <<17, 30>>, <<17, 30, 0>>}

\* The date create_ot_registration reads from a field it can use.
is_date(field) == field.kind \in {"datetime", "$date"}

\* `if len(t) == 5: t += ':00'`.
with_seconds(t) == IF Len(t) = 2 THEN Append(t, 0) ELSE t

InitRecord ==
    /\ raw_record \in [requestNo : {"", "R1"}, requestDate : DateFields,
                       otDate : DateFields, empId : {"", "E1"},
                       otTimeBegin : TimeFields, otTimeEnd : {<< >>, <<19, 0>>}]
    /\ rec_pc = "fetched"
    /\ rec_doc = << >>
    /\ BaseIdle /\ StoreIdle /\ AuxIdle("record")

\* deduplicate_records: a record without one of the four key fields is left
\* out, without a log line.
deduplicate_record ==
    /\ rec_pc = "fetched"
    /\ rec_pc' = IF /\ raw_record.otDate.kind # "none"
                    /\ raw_record.empId # ""
                    /\ raw_record.otTimeBegin # << >>
                    /\ raw_record.otTimeEnd # << >>
                 THEN "unique" ELSE "dropped"
    /\ UNCHANGED <<raw_record, rec_doc, notRecord>>

\* group_records_by_request: a record without requestNo joins no request.
group_record ==
    /\ rec_pc = "unique"
    /\ rec_pc' = IF raw_record.requestNo # "" THEN "grouped" ELSE "dropped"
    /\ UNCHANGED <<raw_record, rec_doc, notRecord>>

\* Variant of request_date: a request date that cannot be read stops the
\* registration.
request_date_or_none(field) == IF is_date(field) THEN <<field.day>> ELSE << >>

\* request_date of create_ot_registration: datetime.now() stands in for a
\* requestDate that is neither a datetime nor a {'$date': ...} dict.
request_date(field) == IF is_date(field) THEN <<field.day>> ELSE <<Today>>

\* create_ot_registration for a request of this one record, HR answering and
\* holding neither the registration nor a conflicting row.
build_doc ==
    /\ rec_pc = "grouped"
    /\ IF ~is_date(raw_record.otDate) \/ request_date(raw_record.requestDate) = << >>
       THEN /\ rec_pc' = "no_valid_records"
            /\ UNCHANGED rec_doc
       ELSE /\ rec_pc' = "posted"
            /\ rec_doc' = [name |-> raw_record.requestNo,
                           request_date |-> request_date(raw_record.requestDate),
                           employee |-> raw_record.empId,
                           date |-> <<raw_record.otDate.day>>,
                           begin_time |-> with_seconds(raw_record.otTimeBegin),
                           end_time |-> with_seconds(raw_record.otTimeEnd)]
    /\ UNCHANGED <<raw_record, notRecord>>

NextRecord == deduplicate_record \/ group_record \/ build_doc

SpecRecord == InitRecord /\ [][NextRecord]_vars

\* C31: a record with a date that cannot be read, or without a required
\* field, is never processed with a value put in its place: every date, time
\* and id of a posted registration is the one the record carries.
C31_NoSubstitutedDefault ==
    rec_pc = "posted" =>
        /\ is_date(raw_record.requestDate)
        /\ rec_doc.request_date = <<raw_record.requestDate.day>>
        /\ is_date(raw_record.otDate)
        /\ rec_doc.date = <<raw_record.otDate.day>>
        /\ rec_doc.employee = raw_record.empId /\ raw_record.empId # ""
        /\ raw_record.otTimeBegin # << >> /\ raw_record.otTimeEnd # << >>
        /\ rec_doc.begin_time = with_seconds(raw_record.otTimeBegin)
        /\ rec_doc.end_time = with_seconds(raw_record.otTimeEnd)

\* ----------------------------------------- C32: what a record stands for
\* C32: an employee has a tracking record written in a cycle only if on some
\* terminal the delete or the recreate was carried out for them, or they are
\* not among that terminal's users.
C32_RecordNeedsCompletedTerminal ==
    \A e \in Employees :
        writes[e] > 0 =>
            \E d \in Devices : <<e, d>> \in mutated \/ e \notin users[d]

\* ------------------------------------- SpecRecover: terminals that come back
\* The cleanup engine of Spec, with terminals that are repaired between two
\* cycles and a tracking file that is empty before the first one.
InitRecover == Init /\ tracking.cleared = {}

\* Between two cycles a faulty terminal starts to work again.
terminal_recovers ==
    /\ pc = "idle"
    /\ cycle >= 1
    /\ cycle < MaxCycles
    /\ \E d \in Devices :
        /\ profile[d] # {}
        /\ profile' = [profile EXCEPT ![d] = {}]
    /\ UNCHANGED <<hr_up, rel_days, deviceVars, engineVars, notEngine>>

NextRecover == Next \/ terminal_recovers

SpecRecover == InitRecover /\ [][NextRecover]_vars

\* The employees the HR view wants without templates on the terminals.
Due == {e \in Employees :
          /\ date_validated(rel_days[e])
          /\ classify(rel_days[e], DELAY_DAYS, DELETE_AFTER_DAYS) # "NoAction"}

\* C33: once every terminal works, a cycle that runs with HR reachable leaves
\* no terminal with templates of an employee who is due, whether or not the
\* terminal was out of reach when the employee was processed before.
C33_RecoveredTerminalConverges ==
    (/\ cycle = MaxCycles
     /\ pc = "idle"
     /\ hr_up
     /\ \A d \in Devices : profile[d] = {}) =>
        \A e \in Due, d \in Devices : e \notin templates[d]

\* ------------------------------------------- C34: purge after an old clear
\* C34: an employee recorded as cleared whose relieving date is now more than
\* delete_after_days back is purged all the same: after a cycle with HR and
\* every terminal in order, no terminal has them as a user.
C34_ClearedRecordDoesNotBlockPurge ==
    (/\ cycle >= 1
     /\ pc = "idle"
     /\ hr_up
     /\ \A d \in Devices : profile[d] = {}) =>
        \A e \in tracking.cleared :
            (/\ date_validated(rel_days[e])
             /\ classify(rel_days[e], DELAY_DAYS, DELETE_AFTER_DAYS) = "Purge") =>
                \A d \in Devices : e \notin users[d]

\* ------------------------------------------ C35: a save after a failed load
\* C35: when the load inside add_processed_employee ended on an unreadable
\* file and returned the empty state, the data the save that follows writes
\* still holds every employee a save has recorded in the file before.
C35_FallbackLoadKeepsRecords ==
    \A p \in Instances :
        (/\ spc[p] \in {"open_temp", "write_temp", "close_temp", "replace"}
         /\ load_saw[p] \in {"partial", "corrupt"}) =>
            \A c \in committed : processed_ids(c) \subseteq processed_ids(processed_data[p])

\* ------------------------------------- SpecGate: the bypass gate of a cycle
\* execute_cycle and execute_end_of_day_resync_cycle of erpnext_sync_all.py,
\* as far as they decide whether the terminals are connected to: the log sync
\* (step 1) and the user info sync (step 2), each with its bypass windows.
PeriodLists ==
    {<< >>} \cup {<<[start |-> w.start, end |-> w.end, reason |-> "rush"]>> : w \in Window}

InitGate ==
    /\ cyc_kind \in {"normal", "end_of_day"}
    /\ sync_log_by_pass_period \in PeriodLists
    /\ sync_user_info_by_pass_period \in PeriodLists
    /\ cyc_now \in Clock
    /\ cyc_pc = "log"
    /\ sessions_for = {}
    /\ BaseIdle /\ StoreIdle /\ AuxIdle("gate")

should_bypass_log_sync == is_in_bypass_period(cyc_now, sync_log_by_pass_period)[1]

should_bypass_user_info_sync ==
    is_in_bypass_period(cyc_now, sync_user_info_by_pass_period)[1]

\* execute_erpnext_sync: run_single_cycle connects to the terminals unless the
\* bypass is asked for and the sync is not forced.
execute_erpnext_sync(bypass_device_connection, force_resync) ==
    sessions_for' = IF bypass_device_connection /\ ~force_resync
                    THEN sessions_for
                    ELSE sessions_for \cup {"log"}

\* Step 1 of execute_cycle.
cycle_log_sync ==
    /\ cyc_pc = "log"
    /\ cyc_kind = "normal"
    /\ IF should_bypass_log_sync
       THEN UNCHANGED sessions_for
       ELSE execute_erpnext_sync(should_bypass_log_sync, FALSE)
    /\ cyc_pc' = "user"
    /\ UNCHANGED <<cyc_kind, sync_log_by_pass_period, sync_user_info_by_pass_period,
                   cyc_now, notGate>>

\* The forced sync of execute_end_of_day_resync_cycle.
end_of_day_log_sync ==
    /\ cyc_pc = "log"
    /\ cyc_kind = "end_of_day"
    /\ execute_erpnext_sync(FALSE, TRUE)
    /\ cyc_pc' = "user"
    /\ UNCHANGED <<cyc_kind, sync_log_by_pass_period, sync_user_info_by_pass_period,
                   cyc_now, notGate>>

\* Step 2 of execute_cycle and the user info sync of the end-of-day cycle,
\* which make the same test.
user_info_sync ==
    /\ cyc_pc = "user"
    /\ sessions_for' = IF should_bypass_user_info_sync THEN sessions_for
                       ELSE sessions_for \cup {"user_info"}
    /\ cyc_pc' = "done"
    /\ UNCHANGED <<cyc_kind, sync_log_by_pass_period, sync_user_info_by_pass_period,
                   cyc_now, notGate>>

\* The wall clock moves on between two steps.
clock_moves ==
    /\ cyc_pc = "user"
    /\ sessions_for = {}
    /\ \E t \in Clock : time_le(cyc_now, t) /\ t # cyc_now /\ cyc_now' = t
    /\ UNCHANGED <<cyc_kind, sync_log_by_pass_period, sync_user_info_by_pass_period,
                   cyc_pc, sessions_for, notGate>>

NextGate == cycle_log_sync \/ end_of_day_log_sync \/ user_info_sync \/ clock_moves

SpecGate == InitGate /\ [][NextGate]_vars

\* C36: a cycle, normal or end-of-day, opens no device session for a class of
\* synchronization while the clock is inside a bypass window of that class.
C36_NoSessionInsideWindow ==
    /\ ("log" \in sessions_for /\ cyc_pc = "user") => ~should_bypass_log_sync
    /\ ("user_info" \in sessions_for /\ cyc_pc = "done") => ~should_bypass_user_info_sync

\* --------------------------------------- SpecMarker: the last-sync marker
\* auto_sync of 11.sync_user_info_from_erpnext_to_device.py over several
\* passes: sync_full on the first run, then sync_changed(last_sync), each
\* ending with sync_state.set_last_sync().
InitMarker ==
    /\ mk_now = 0
    /\ hr_modified = [e \in Employees |-> 0]
    /\ last_sync = << >>
    /\ mk_changed = {}
    /\ mk_failed = {}
    /\ mk_prev_failed = {}
    /\ mk_passes = 0
    /\ mk_pc = "idle"
    /\ BaseIdle /\ StoreIdle /\ AuxIdle("marker")

markerData == <<hr_modified, last_sync, mk_changed, mk_failed, mk_prev_failed, mk_passes,
                mk_pc>>

clock_tick ==
    /\ mk_now < MaxDays
    /\ mk_now' = mk_now + 1
    /\ UNCHANGED <<markerData, notMarker>>

\* An employee record is changed in HR.
hr_change ==
    /\ \E e \in Employees :
        /\ hr_modified[e] < mk_now
        /\ hr_modified' = [hr_modified EXCEPT ![e] = mk_now]
    /\ UNCHANGED <<mk_now, last_sync, mk_changed, mk_failed, mk_prev_failed, mk_passes,
                   mk_pc, notMarker>>

\* sync_full fetches every employee; sync_changed those with
\* `modified >= since`.
get_changed_employees(since) ==
    IF since = << >> THEN Employees
    ELSE {e \in Employees : hr_modified[e] >= since[1]}

\* sync_state.set_last_sync(): now, or nothing when the write raises.
set_last_sync_now ==
    \E written \in BOOLEAN :
        last_sync' = IF written THEN <<mk_now>> ELSE last_sync

\* auto_sync up to the end of the thread pool: the HR test, the fetch and the
\* delivery to every terminal, which fails on the terminals not in `ok`.
auto_sync ==
    /\ mk_pc = "idle"
    /\ mk_passes < MaxCycles
    /\ mk_passes' = mk_passes + 1
    /\ \E hr \in BOOLEAN :
        IF ~hr
        THEN UNCHANGED <<last_sync, mk_changed, mk_failed, mk_prev_failed, mk_pc>>
        ELSE /\ mk_changed' = get_changed_employees(last_sync)
             /\ mk_prev_failed' = mk_failed
             /\ IF mk_changed' = {}
                THEN /\ mk_failed' = {}
                     /\ set_last_sync_now
                     /\ UNCHANGED mk_pc
                ELSE /\ \E ok \in SUBSET Devices :
                          mk_failed' = mk_changed' \X (Devices \ ok)
                     /\ mk_pc' = "syncing"
                     /\ UNCHANGED last_sync
    /\ UNCHANGED <<mk_now, hr_modified, notMarker>>

\* The end of sync_full and sync_changed.
save_last_sync ==
    /\ mk_pc = "syncing"
    /\ set_last_sync_now
    /\ mk_pc' = "idle"
    /\ UNCHANGED <<mk_now, hr_modified, mk_changed, mk_failed, mk_prev_failed,
                   mk_passes, notMarker>>

NextMarker == clock_tick \/ hr_change \/ auto_sync \/ save_last_sync

SpecMarker == InitMarker /\ [][NextMarker]_vars

\* C37: an employee whose delivery to a terminal failed in one pass is among
\* the employees the next pass fetches.
C37_FailedChangeFetchedAgain ==
    \A x \in mk_prev_failed : x[1] \in mk_changed

\* C38: whenever clean_left_employee_complete writes an employee's Tracking
\* Record, the recorded action is "deleted" if the classifier assigned Purge to
\* the employee and "cleared" if it assigned ClearTemplates.
C38_RecordedActionIsClassifiedAction ==
    [][(pc = "record" /\ writes' # writes) =>
         LET assigned == classify(rel_days[Emp], DELAY_DAYS, DELETE_AFTER_DAYS)
         IN  /\ assigned = "Purge" => Emp \in tracking'.deleted
             /\ assigned = "ClearTemplates" => Emp \in tracking'.cleared]_vars

\* ------------------------------------ SpecManual: the manual re-sync tool
\* ManualResyncTool.execute_clear_left_templates of erpnext_re_sync_all.py.
\* The user gives or answers the two delays (<< >> when prompt_integer returns
\* None) and --force.  The operation meets a last-run date that is today or
\* not, an HR system that answers or not, a list of `left` employees and
\* possibly an exception at one of its steps.
InitManual ==
    /\ man_pc = "start"
    /\ man_args \in [force : BOOLEAN, delay : {<< >>, <<0>>, <<45>>},
                     delete_after : {<< >>, <<0>>, <<90>>}]
    /\ man_env \in [ran_today : BOOLEAN, hr : BOOLEAN, left : 0..NumEmployees,
                    raises : {"none", "test", "list", "loop"}]
    /\ man_config = OriginalConfig
    /\ man_result = "none"
    /\ BaseIdle /\ StoreIdle /\ AuxIdle("manual")

\* `return` after the two values of local_config are set back.
RestoreAndReturn(value) ==
    /\ man_config' = OriginalConfig
    /\ man_result' = value
    /\ man_pc' = "returned"

\* `return` alone.
ReturnOnly(value) ==
    /\ man_result' = value
    /\ man_pc' = "returned"
    /\ UNCHANGED man_config

\* The two prompts, then "Temporarily override config values".
man_override ==
    /\ man_pc = "start"
    /\ IF man_args.delay = << >> \/ man_args.delete_after = << >>
       THEN ReturnOnly("True")
       ELSE /\ man_config' = [delay |-> man_args.delay[1],
                              delete_after |-> man_args.delete_after[1]]
            /\ man_pc' = "last_run"
            /\ UNCHANGED man_result
    /\ UNCHANGED <<man_args, man_env, notManual>>

\* `if not force:` already run today.
man_last_run ==
    /\ man_pc = "last_run"
    /\ IF ~man_args.force /\ man_env.ran_today
       THEN RestoreAndReturn("True")
       ELSE /\ man_pc' = "test"
            /\ UNCHANGED <<man_config, man_result>>
    /\ UNCHANGED <<man_args, man_env, notManual>>

\* The module is loaded and cleaner.test_erpnext_connection() called.
man_test_erpnext_connection ==
    /\ man_pc = "test"
    /\ IF man_env.raises = "test" THEN RestoreAndReturn("False")
       ELSE IF ~man_env.hr THEN ReturnOnly("False")
       ELSE /\ man_pc' = "list"
            /\ UNCHANGED <<man_config, man_result>>
    /\ UNCHANGED <<man_args, man_env, notManual>>

\* cleaner.get_left_employees_for_cleanup() and `if not left_employees:`.
man_get_left_employees ==
    /\ man_pc = "list"
    /\ IF man_env.raises = "list" THEN RestoreAndReturn("False")
       ELSE IF man_env.left = 0 THEN RestoreAndReturn("True")
       ELSE /\ man_pc' = "loop"
            /\ UNCHANGED <<man_config, man_result>>
    /\ UNCHANGED <<man_args, man_env, notManual>>

\* The loop over the employees, the last-run date and the result.
man_cleanup ==
    /\ man_pc = "loop"
    /\ IF man_env.raises = "loop" THEN RestoreAndReturn("False")
       ELSE \E successful_cleanups \in 0..man_env.left :
               RestoreAndReturn(IF successful_cleanups > 0 THEN "True" ELSE "False")
    /\ UNCHANGED <<man_args, man_env, notManual>>

NextManual ==
    \/ man_override
    \/ man_last_run
    \/ man_test_erpnext_connection
    \/ man_get_left_employees
    \/ man_cleanup

SpecManual == InitManual /\ [][NextManual]_vars

\* C39: when execute_clear_left_templates has returned, by whatever path, the
\* clear delay and the purge-after days of local_config have their original
\* values.
C39_OverrideRestoredOnEveryExit ==
    man_pc = "returned" => man_config = OriginalConfig

\* ------------------------- SpecLeft: Left employees in a changed-sync pass
\* sync_changed submits process_device_smart_sync once per terminal to a
\* thread pool; each thread calls cleanup_left_employee_complete for every
\* employee of left_employees_to_cleanup, here EmployeeList.  The threads
\* share self._left_employees_erpnext_cleaned with no lock; a step below is
\* what one thread does between two points where another may run.
InitLeft ==
    /\ erpnext_cleaned = << >>
    /\ worker_pc = [d \in Devices |-> "check"]
    /\ worker_emp = [d \in Devices |-> 1]
    /\ hr_deletions = [e \in Employees |-> 0]
    /\ hr_raises \in SUBSET Employees
    /\ BaseIdle /\ StoreIdle /\ AuxIdle("left")

\* `hasattr(self, ...)` and `employee_id not in ...`; without the attribute
\* the set is created holding the employee.
left_check(d) ==
    /\ worker_pc[d] = "check"
    /\ LET e == EmployeeList[worker_emp[d]]
       IN  IF erpnext_cleaned = << >>
           THEN /\ erpnext_cleaned' = <<{e}>>
                /\ worker_pc' = [worker_pc EXCEPT ![d] = "delete_new"]
           ELSE /\ worker_pc' = [worker_pc EXCEPT ![d] =
                                   IF e \in erpnext_cleaned[1] THEN "device" ELSE "delete"]
                /\ UNCHANGED erpnext_cleaned
    /\ UNCHANGED <<worker_emp, hr_deletions, hr_raises, notLeft>>

\* delete_employee_fingerprints_from_erpnext(employee_id) and, in the branch
\* that found the set, `.add(employee_id)` when the call did not raise.
left_delete_fingerprints(d) ==
    /\ worker_pc[d] \in {"delete", "delete_new"}
    /\ LET e == EmployeeList[worker_emp[d]]
       IN  /\ hr_deletions' = [hr_deletions EXCEPT ![e] = @ + 1]
           /\ erpnext_cleaned' =
                 IF worker_pc[d] = "delete" /\ e \notin hr_raises
                 THEN <<erpnext_cleaned[1] \cup {e}>>
                 ELSE erpnext_cleaned
    /\ worker_pc' = [worker_pc EXCEPT ![d] = "device"]
    /\ UNCHANGED <<worker_emp, hr_raises, notLeft>>

\* Step 2, clear_all_fingerprints_for_employee on the terminal, then the next
\* employee of the loop of process_device_smart_sync.
left_clear_device(d) ==
    /\ worker_pc[d] = "device"
    /\ IF worker_emp[d] < Len(EmployeeList)
       THEN /\ worker_emp' = [worker_emp EXCEPT ![d] = @ + 1]
            /\ worker_pc' = [worker_pc EXCEPT ![d] = "check"]
       ELSE /\ worker_pc' = [worker_pc EXCEPT ![d] = "done"]
            /\ UNCHANGED worker_emp
    /\ UNCHANGED <<erpnext_cleaned, hr_deletions, hr_raises, notLeft>>

NextLeft ==
    \E d \in Devices :
        \/ left_check(d)
        \/ left_delete_fingerprints(d)
        \/ left_clear_device(d)

SpecLeft == InitLeft /\ [][NextLeft]_vars

====
